---- MODULE Spec2Model ----
(***************************************************************************)
(* Interest model: rate transforms (src/src/transforms.py), the monthly    *)
(* forecast engine (src/src/model.py) and the calibrator's entry           *)
(* (src/src/calibrate.py).                                                 *)
(*                                                                         *)
(* Numbers.  The program computes in IEEE doubles.  The model computes in  *)
(* exact rationals <<numerator, denominator>> in lowest terms with a       *)
(* positive denominator, and <<0, 0>> is NaN (a missing value).  Rounding  *)
(* error of the doubles is therefore not modelled: every equality below is *)
(* an equality of the real-number values the code's expressions denote.    *)
(* 0.5 ** (1/hl) is irrational for a half-life hl other than 1/k; it is    *)
(* the value Irr, of which only 0 < Irr < 1 is known: a product with 0 is   *)
(* 0, 1 - Irr is again such a value, and any other use is left undefined.   *)
(***************************************************************************)
EXTENDS Integers, Sequences, FiniteSets, Bags

VARIABLES
    \* ---- ema(series, alpha), one call (transforms.py:16-26)
    e_pc,       \* position in ema
    e_series,   \* argument: the input series (positional index 1..Len)
    e_alpha,    \* argument: the smoothing weight
    e_out,      \* local `out`
    e_i,        \* loop variable `i` (1-based position about to be written)
    \* ---- half_life_to_alpha, two independent calls (transforms.py:10-13)
    h_pc,       \* <<position of call 1, position of call 2>>
    h_arg,      \* <<half_life_months of call 1, of call 2>>
    h_ret,      \* <<value returned by call 1, by call 2>>
    \* ---- the inputs shared by forecast_monthly and calibrate_params
    macro_df,   \* MacroSeries: a sequence of monthly rows (records of columns)
    macro_columns, \* macro_df.columns: the names of the columns the frame has
    params,     \* ModelParameters handed to forecast_monthly
    config,     \* configuration: model.debt_public_initial.value, model.r_tips_coupon
    \* ---- forecast_monthly, one call (model.py:15-89)
    f_pc,       \* position in forecast_monthly
    debt0,      \* local `debt0`
    alpha_s,    \* local `alpha_s`
    alpha_nb,   \* local `alpha_nb`
    r_short,    \* local `r_short`
    r_nb,       \* local `r_nb`
    debt_prev,  \* local `debt_prev`
    f_t,        \* loop position: the month about to be computed (1-based)
    f_out,      \* the rows of `out` (the seven result series) written so far
    \* ---- calibrate_params, one call (calibrate.py:74-105)
    c_pc,       \* position in calibrate_params
    debt_initial, \* local `debt_initial`
    ieod_series, \* argument ieod_series (index: positions 1..Len)
    c_y,        \* local `y`
    c_cell,     \* position in itertools.product(hl_short_grid, hl_nb_grid), 1-based
    c_best,     \* local `best`: None or <<score, hl_s, hl_nb, params>>
    c_scores,   \* the rss and params of the cells evaluated so far, in order
    c_ret,      \* the dictionary returned
    \* ---- weighted_curve, one call (transforms.py:29-40)
    w_pc,       \* position in weighted_curve
    w_r2y,      \* argument r2y (index: positions 1..Len)
    w_r5y,      \* argument r5y
    w_r10y,     \* argument r10y
    w_weights,  \* argument weights
    w_out,      \* the series returned
    \* ---- _coefs_to_params, one call (calibrate.py:50-71)
    k_pc,       \* position in _coefs_to_params
    k_coef,     \* argument coef: <<beta_s, beta_nb, beta_tips, gamma>>
    k_debt,     \* argument debt_initial
    k_shares,   \* locals <<share_short, share_nb, share_tips>>
    k_other,    \* local other_bps
    k_ret,      \* the dictionary returned
    \* ---- _design_matrix, one call (calibrate.py:16-38)
    d_pc,       \* position in _design_matrix
    d_rs,       \* local `rs`
    d_rnb,      \* local `rnb`
    d_a,        \* local `a`
    d_gdp_scale, \* local `gdp_scale`
    d_X,        \* local `X`: the four columns
    \* ---- year aggregation, one call of aggregate_model_cy/fy
    \* ---- (aggregate.py:15-59) or of aggregate_cy/fy (transforms.py:53-76)
    a_pc,       \* position in the aggregation
    a_fn,       \* the module called: "aggregate" or "transforms"
    a_fy,       \* the convention: TRUE for aggregate_model_fy / aggregate_fy
    monthly_df, \* argument monthly_df: rows [stamp, NetInt, Debt, nominal_gdp]
    has_gdp,    \* 'nominal_gdp' in monthly_df.columns
    series_map, \* argument series_map: name -> series, a series a sequence of <<stamp, value>>
    a_df,       \* transforms local `df`: rows [stamp, values], values by name
    years,      \* local `years`: the label of each row
    a_out,      \* the rows of `out` built so far, by ascending label
    \* ---- find_latest_ieod_csv, one call (io_utils.py:30-53)
    l_pc,       \* position in find_latest_ieod_csv
    l_dir,      \* the entries of input_dir: records [name, is_file, mtime]
    l_candidates, \* local `candidates`
    l_parsed,   \* local `parsed`: <<path, key>> pairs
    l_ret,      \* the path returned
    \* ---- expand_macro_series, one call (io_utils.py:94-167)
    x_pc,       \* position in expand_macro_series
    x_cfg,      \* argument cfg: model.start, model.end, nominal_gdp_initial, macro_series
    x_idx,      \* local `idx`: the month-ends of the window
    x_series,   \* the local series built so far, by name
    x_out,      \* the frame returned: one row per month of idx
    \* ---- build_ieod_monthly_total, one call (transforms.py:43-50)
    b_pc,       \* position in build_ieod_monthly_total
    b_ieod,     \* argument df_ieod: rows [date, amount], a date <<year, month, day>>
    b_start,    \* argument start
    b_now,      \* argument now
    b_df,       \* local `df`: the rows kept, then with their month
    b_ret       \* the series returned: <<month-end, total>> entries

evars == <<e_pc, e_series, e_alpha, e_out, e_i>>
hvars == <<h_pc, h_arg, h_ret>>
ivars == <<macro_df, macro_columns, params, config>>
fvars == <<f_pc, debt0, alpha_s, alpha_nb, r_short, r_nb, debt_prev, f_t, f_out>>
cvars == <<c_pc, debt_initial, ieod_series, c_y, c_cell, c_best, c_scores, c_ret>>
wvars == <<w_pc, w_r2y, w_r5y, w_r10y, w_weights, w_out>>
kvars == <<k_pc, k_coef, k_debt, k_shares, k_other, k_ret>>
dvars == <<d_pc, d_rs, d_rnb, d_a, d_gdp_scale, d_X>>
avars == <<a_pc, a_fn, a_fy, monthly_df, has_gdp, series_map, a_df, years, a_out>>
lvars == <<l_pc, l_dir, l_candidates, l_parsed, l_ret>>
xvars == <<x_pc, x_cfg, x_idx, x_series, x_out>>
bvars == <<b_pc, b_ieod, b_start, b_now, b_df, b_ret>>
vars == <<evars, hvars, ivars, fvars, cvars, wvars, kvars, dvars, avars, lvars, xvars, bvars>>

----------------------------------------------------------------------------
(* Arithmetic of the Python floats, as exact rationals with NaN.            *)

NaN == <<0, 0>>
Zero == <<0, 1>>
One == <<1, 1>>
None == <<>>
Irr == <<1, -1>>

IsNaN(x) == x[2] = 0

Abs(n) == IF n < 0 THEN -n ELSE n

RECURSIVE GCD(_, _)
GCD(a, b) == IF b = 0 THEN a ELSE GCD(b, a % b)

\* n/d in lowest terms, denominator positive
Q(n, d) ==
    IF d = 0 THEN NaN
    ELSE LET g == GCD(Abs(n), Abs(d))
             s == IF d < 0 THEN -1 ELSE 1
         IN <<(s * n) \div g, (s * d) \div g>>

Add(x, y) ==
    IF IsNaN(x) \/ IsNaN(y) THEN NaN
    ELSE IF x = Irr \/ y = Irr THEN CASE x = Zero -> y [] y = Zero -> x
    ELSE LET g == GCD(x[2], y[2])
         IN Q(x[1] * (y[2] \div g) + y[1] * (x[2] \div g), (x[2] \div g) * y[2])

Neg(x) == <<-x[1], x[2]>>

Sub(x, y) ==
    IF y = Irr THEN CASE IsNaN(x) -> NaN [] x = One -> Irr
    ELSE Add(x, Neg(y))

Mul(x, y) ==
    IF IsNaN(x) \/ IsNaN(y) THEN NaN
    ELSE IF x = Irr \/ y = Irr THEN CASE x = Zero \/ y = Zero -> Zero
    ELSE LET g1 == GCD(Abs(x[1]), y[2])
             g2 == GCD(Abs(y[1]), x[2])
         IN Q((x[1] \div g1) * (y[1] \div g2), (x[2] \div g2) * (y[2] \div g1))

\* x / y; a zero divisor yields a non-finite value, modelled as NaN
Div(x, y) ==
    IF IsNaN(x) \/ IsNaN(y) \/ y[1] = 0 THEN NaN
    ELSE IF x = Irr \/ y = Irr THEN CASE x = Zero -> Zero
    ELSE Mul(x, Q(y[2], y[1]))

\* x < y and x <= y: every comparison with NaN is false
\* a comparison with Irr, decided where 0 < Irr < 1 decides it
IrrLess(x, y) ==
    CASE x = Irr /\ y # Irr /\ y[1] >= y[2] -> TRUE
      [] x = Irr /\ y # Irr /\ y[1] <= 0 -> FALSE
      [] y = Irr /\ x # Irr /\ x[1] <= 0 -> TRUE
      [] y = Irr /\ x # Irr /\ x[1] >= x[2] -> FALSE

Lt(x, y) ==
    /\ ~IsNaN(x) /\ ~IsNaN(y)
    /\ IF x = Irr \/ y = Irr THEN IrrLess(x, y) ELSE x[1] * y[2] < y[1] * x[2]
Le(x, y) ==
    /\ ~IsNaN(x) /\ ~IsNaN(y)
    /\ IF x = Irr \/ y = Irr THEN IrrLess(x, y) ELSE x[1] * y[2] <= y[1] * x[2]

R(n) == <<n, 1>>

\* b ** k for a natural number k
RECURSIVE IntPow(_, _)
IntPow(b, k) == IF k = 0 THEN One ELSE Mul(b, IntPow(b, k - 1))

\* b ** e.  The result is a rational for an integral exponent e >= 0; 0.5 to
\* a positive exponent that is not integral is irrational and lies in (0, 1).
Pow(b, e) ==
    CASE IsNaN(b) \/ IsNaN(e) -> NaN
      [] e[2] = 1 /\ e[1] >= 0 -> IntPow(b, e[1])
      [] e[2] > 1 /\ e[1] > 0 /\ b = Q(1, 2) -> Irr

----------------------------------------------------------------------------
(* Bounds and input sets.                                                   *)

MaxLen == 4             \* longest series handed to ema
MaxInvHalfLife == 5     \* half-lives 1/k months, k = 1..MaxInvHalfLife
MaxMonths == 3          \* longest MacroSeries

RECURSIVE SeqsUpTo(_, _)
SeqsUpTo(S, n) ==
    IF n = 0 THEN {<<>>}
    ELSE LET shorter == SeqsUpTo(S, n - 1)
         IN shorter \cup {Append(s, v) : s \in {q \in shorter : Len(q) = n - 1}, v \in S}

SeriesValues == {Zero, One, Q(3, 1), NaN}
Alphas == {Q(-1, 2), Zero, Q(1, 4), Q(1, 2), One, Q(3, 2), NaN}
HalfLives == {Q(1, k) : k \in 1..MaxInvHalfLife} \cup {Zero, Q(-1, 1)}

----------------------------------------------------------------------------
(* transforms.half_life_to_alpha                                            *)

\* mutant: a zero half-life is let through
half_life_raises_negative(half_life_months) == Lt(half_life_months, Zero)

\* transforms.py:11-12
half_life_raises(half_life_months) == Le(half_life_months, Zero)

\* mutant: the `1.0 -` is lost
half_life_to_alpha_decay(half_life_months) ==
    Pow(Q(1, 2), Div(One, half_life_months))

half_life_to_alpha(half_life_months) ==
    Sub(One, Pow(Q(1, 2), Div(One, half_life_months)))

----------------------------------------------------------------------------
(* transforms.ema                                                           *)

\* mutant: the upper bound is not checked
alpha_in_range_unbounded(alpha) == Lt(Zero, alpha)

\* mutant: zero is accepted
alpha_in_range_closed(alpha) == Le(Zero, alpha) /\ Le(alpha, One)

\* `0 < alpha <= 1`
alpha_in_range(alpha) == Lt(Zero, alpha) /\ Le(alpha, One)

\* out = series.astype(float).copy(); out.iloc[0] = series.iloc[0]
ema_first(series) == [series EXCEPT ![1] = series[1]]

\* mutant: the previous input is used in place of the previous output
ema_body_unsmoothed(series, alpha, out, i) ==
    [out EXCEPT ![i] = Add(Mul(alpha, series[i]), Mul(Sub(One, alpha), series[i - 1]))]

\* one pass of the loop body, writing position i (1-based, i >= 2)
ema_body(series, alpha, out, i) ==
    [out EXCEPT ![i] = Add(Mul(alpha, series[i]), Mul(Sub(One, alpha), out[i - 1]))]

RECURSIVE ema_loop(_, _, _, _)
ema_loop(series, alpha, out, i) ==
    IF i > Len(series) THEN out
    ELSE ema_loop(series, alpha, ema_body(series, alpha, out, i), i + 1)

\* the value ema returns when it does not raise
ema(series, alpha) ==
    IF series = <<>> THEN series ELSE ema_loop(series, alpha, ema_first(series), 2)

----------------------------------------------------------------------------
(* One call of ema, statement by statement.                                 *)

EmaIdle == e_pc = "idle" /\ e_series = <<>> /\ e_alpha = None /\ e_out = None /\ e_i = 0
HalfLifeIdle == h_pc = <<"idle", "idle">> /\ h_arg = <<None, None>> /\ h_ret = <<None, None>>
EngineIdle ==
    /\ params = None
    /\ f_pc = "idle" /\ debt0 = None /\ alpha_s = None /\ alpha_nb = None
    /\ r_short = None /\ r_nb = None /\ debt_prev = None /\ f_t = 0 /\ f_out = <<>>
DesignIdle ==
    /\ d_pc = "idle" /\ d_rs = None /\ d_rnb = None /\ d_a = None
    /\ d_gdp_scale = None /\ d_X = None
ForecastIdle ==
    /\ macro_df = <<>> /\ macro_columns = {} /\ config = None
    /\ EngineIdle
    /\ c_pc = "idle" /\ debt_initial = None /\ ieod_series = <<>> /\ c_y = None
    /\ c_cell = 0 /\ c_best = None /\ c_scores = <<>> /\ c_ret = None
    /\ DesignIdle
CurveIdle ==
    /\ w_pc = "idle" /\ w_r2y = <<>> /\ w_r5y = <<>> /\ w_r10y = <<>>
    /\ w_weights = <<>> /\ w_out = None
CoefsIdle ==
    /\ k_pc = "idle" /\ k_coef = None /\ k_debt = None /\ k_shares = None
    /\ k_other = None /\ k_ret = None
AggIdle ==
    /\ a_pc = "idle" /\ a_fn = "none" /\ a_fy = FALSE /\ monthly_df = <<>>
    /\ has_gdp = FALSE /\ series_map = None /\ a_df = None /\ years = None
    /\ a_out = None
LatestIdle ==
    /\ l_pc = "idle" /\ l_dir = {} /\ l_candidates = None /\ l_parsed = None
    /\ l_ret = None
ExpandIdle ==
    /\ x_pc = "idle" /\ x_cfg = None /\ x_idx = None /\ x_series = None /\ x_out = None
BuildIdle ==
    /\ b_pc = "idle" /\ b_ieod = <<>> /\ b_start = None /\ b_now = None
    /\ b_df = None /\ b_ret = None

EmaInit ==
    /\ e_pc = "call"
    /\ e_series \in SeqsUpTo(SeriesValues, MaxLen)
    /\ e_alpha \in Alphas
    /\ e_out = None
    /\ e_i = 0
    /\ HalfLifeIdle
    /\ ForecastIdle
    /\ CurveIdle
    /\ CoefsIdle
    /\ AggIdle
    /\ LatestIdle
    /\ ExpandIdle
    /\ BuildIdle

\* transforms.py:17-18
ema_check ==
    /\ e_pc = "call"
    /\ e_pc' = IF alpha_in_range(e_alpha) THEN "checked" ELSE "ValueError"
    /\ UNCHANGED <<e_series, e_alpha, e_out, e_i>>
    /\ UNCHANGED <<hvars, ivars, fvars, cvars, wvars, kvars, dvars, avars, lvars, xvars, bvars>>

\* transforms.py:19-20
ema_empty ==
    /\ e_pc = "checked"
    /\ e_series = <<>>
    /\ e_out' = e_series
    /\ e_pc' = "returned"
    /\ UNCHANGED <<e_series, e_alpha, e_i>>
    /\ UNCHANGED <<hvars, ivars, fvars, cvars, wvars, kvars, dvars, avars, lvars, xvars, bvars>>

\* transforms.py:21-22
ema_start ==
    /\ e_pc = "checked"
    /\ e_series # <<>>
    /\ e_out' = ema_first(e_series)
    /\ e_i' = 2
    /\ e_pc' = "loop"
    /\ UNCHANGED <<e_series, e_alpha>>
    /\ UNCHANGED <<hvars, ivars, fvars, cvars, wvars, kvars, dvars, avars, lvars, xvars, bvars>>

\* transforms.py:23-24
ema_iter ==
    /\ e_pc = "loop"
    /\ e_i <= Len(e_series)
    /\ e_out' = ema_body(e_series, e_alpha, e_out, e_i)
    /\ e_i' = e_i + 1
    /\ UNCHANGED <<e_pc, e_series, e_alpha>>
    /\ UNCHANGED <<hvars, ivars, fvars, cvars, wvars, kvars, dvars, avars, lvars, xvars, bvars>>

\* transforms.py:25-26
ema_return ==
    /\ e_pc = "loop"
    /\ e_i > Len(e_series)
    /\ e_pc' = "returned"
    /\ UNCHANGED <<e_series, e_alpha, e_out, e_i>>
    /\ UNCHANGED <<hvars, ivars, fvars, cvars, wvars, kvars, dvars, avars, lvars, xvars, bvars>>

EmaNext == ema_check \/ ema_empty \/ ema_start \/ ema_iter \/ ema_return

----------------------------------------------------------------------------
(* Two calls of half_life_to_alpha on independent arguments.                *)

HalfLifeInit ==
    /\ h_pc = <<"call", "call">>
    /\ h_arg \in HalfLives \X HalfLives
    /\ h_ret = <<None, None>>
    /\ EmaIdle
    /\ ForecastIdle
    /\ CurveIdle
    /\ CoefsIdle
    /\ AggIdle
    /\ LatestIdle
    /\ ExpandIdle
    /\ BuildIdle

\* transforms.py:10-13
half_life_call(c) ==
    /\ h_pc[c] = "call"
    /\ IF half_life_raises(h_arg[c])
       THEN /\ h_pc' = [h_pc EXCEPT ![c] = "ValueError"]
            /\ UNCHANGED h_ret
       ELSE /\ h_pc' = [h_pc EXCEPT ![c] = "returned"]
            /\ h_ret' = [h_ret EXCEPT ![c] = half_life_to_alpha(h_arg[c])]
    /\ UNCHANGED h_arg
    /\ UNCHANGED <<evars, ivars, fvars, cvars, wvars, kvars, dvars, avars, lvars, xvars, bvars>>

HalfLifeNext == \E c \in {1, 2} : half_life_call(c)

----------------------------------------------------------------------------
(* transforms.weighted_curve                                                *)

Max(a, b) == IF a >= b THEN a ELSE b

\* series.reindex(idx): positions the series does not have are missing
reindex(series, n) == [i \in 1..n |-> IF i <= Len(series) THEN series[i] ELSE NaN]

\* mutant: a missing term is summed like any other
nan_term_propagate(x) == x

\* one term of np.nansum: a NaN term adds nothing
nan_term(x) == IF IsNaN(x) THEN Zero ELSE x

\* mutant: the weights are not applied
weighted_curve_unweighted(r2y, r5y, r10y, weights) ==
    LET n == Max(Len(r2y), Max(Len(r5y), Len(r10y)))
        r2 == reindex(r2y, n)
        r5 == reindex(r5y, n)
        r10 == reindex(r10y, n)
    IN [i \in 1..n |-> Add(Add(nan_term(r2[i]), nan_term(r5[i])), nan_term(r10[i]))]

\* the value weighted_curve returns for a length-3 weights vector
weighted_curve(r2y, r5y, r10y, weights) ==
    LET n == Max(Len(r2y), Max(Len(r5y), Len(r10y)))
        r2 == reindex(r2y, n)
        r5 == reindex(r5y, n)
        r10 == reindex(r10y, n)
    IN [i \in 1..n |->
           Add(Add(nan_term(Mul(r2[i], weights[1])), nan_term(Mul(r5[i], weights[2]))),
               nan_term(Mul(r10[i], weights[3])))]

\* transforms.py:31-32, `w.shape != (3,)`
weights_raise(weights) == Len(weights) # 3

MaxStamps == 3          \* longest series handed to weighted_curve

\* the weights of the engine and the calibrator, those of the test, weights
\* that do not sum to one, a missing weight, and a vector of the wrong length
CurveWeights ==
    { <<Q(1, 5), Q(2, 5), Q(2, 5)>>, <<Q(1, 5), Q(3, 10), Q(1, 2)>>,
      <<One, One, R(2)>>, <<Q(1, 5), NaN, Q(2, 5)>>, <<Q(1, 5), Q(2, 5)>> }

CurveInit ==
    /\ w_pc = "call"
    /\ w_r2y \in SeqsUpTo({R(2), NaN}, MaxStamps)
    /\ w_r5y \in SeqsUpTo({R(3), NaN}, MaxStamps)
    /\ w_r10y \in SeqsUpTo({R(4), NaN}, MaxStamps)
    /\ w_weights \in CurveWeights
    /\ w_out = None
    /\ EmaIdle
    /\ HalfLifeIdle
    /\ ForecastIdle
    /\ CoefsIdle
    /\ AggIdle
    /\ LatestIdle
    /\ ExpandIdle
    /\ BuildIdle

\* transforms.py:30-32
curve_check ==
    /\ w_pc = "call"
    /\ w_pc' = IF weights_raise(w_weights) THEN "ValueError" ELSE "checked"
    /\ UNCHANGED <<w_r2y, w_r5y, w_r10y, w_weights, w_out>>
    /\ UNCHANGED <<evars, hvars, ivars, fvars, cvars, kvars, dvars, avars, lvars, xvars, bvars>>

\* transforms.py:33-40
curve_blend ==
    /\ w_pc = "checked"
    /\ w_out' = weighted_curve(w_r2y, w_r5y, w_r10y, w_weights)
    /\ w_pc' = "returned"
    /\ UNCHANGED <<w_r2y, w_r5y, w_r10y, w_weights>>
    /\ UNCHANGED <<evars, hvars, ivars, fvars, cvars, kvars, dvars, avars, lvars, xvars, bvars>>

CurveNext == curve_check \/ curve_blend

----------------------------------------------------------------------------
(* model.forecast_monthly                                                   *)

\* macro_df[name] as a series
Column(df, name) == [i \in 1..Len(df) |-> df[i][name]]

\* config.get('model', {}).get('debt_public_initial', {}).get('value', 0.0)
config_debt_value(cfg) == IF cfg.has_value THEN cfg.value ELSE Zero

\* the columns a MacroSeries has, and those forecast_monthly and
\* calibrate_params read (model.py:20,28-32,64, calibrate.py:19-20,29,35,80)
AllColumns ==
    {"r3m", "r2y", "r5y", "r10y", "pce_infl_m", "primary_deficit_pct_gdp", "nominal_gdp"}
RequiredColumns == {"r3m", "r2y", "r5y", "r10y", "pce_infl_m", "nominal_gdp"}

\* model.py:19-20 raises KeyError on macro_df['nominal_gdp'] of a frame without
\* that column
forecast_debt0_missing(cols, cfg) ==
    Le(config_debt_value(cfg), Zero) /\ "nominal_gdp" \notin cols

\* model.py:19-20 raises IndexError on .iloc[0] of an empty frame
forecast_debt0_raises(df, cfg) == Le(config_debt_value(cfg), Zero) /\ Len(df) = 0

\* model.py:17-20
forecast_debt0(df, cfg) ==
    IF Le(config_debt_value(cfg), Zero) THEN df[1].nominal_gdp ELSE config_debt_value(cfg)

\* mutant: a wrong last weight
curve_weights_short == <<Q(1, 5), Q(2, 5), Q(1, 5)>>

\* model.py:34, the blend weights
curve_weights == <<Q(1, 5), Q(2, 5), Q(2, 5)>>

\* model.py:60
int_short(r, prev, share) == Div(Mul(Mul(r, prev), share), R(12))

\* model.py:61
int_nb(r, prev, share) == Div(Mul(Mul(r, prev), share), R(12))

\* mutant: the monthly inflation is divided by 12 like an annual rate
int_tips_annual(infl, coupon, prev, share) ==
    Mul(Mul(Add(Div(infl, R(12)), Div(coupon, R(12))), prev), share)

\* mutant: the inflation accrual is taken off the coupon
int_tips_real(infl, coupon, prev, share) == Mul(Mul(Sub(Div(coupon, R(12)), infl), prev), share)

\* model.py:63
int_tips(infl, coupon, prev, share) == Mul(Mul(Add(infl, Div(coupon, R(12))), prev), share)

\* model.py:64
int_other(bps, gdp) == Mul(Div(Div(bps, R(10000)), R(12)), gdp)

\* model.py:66
net_total(s, n, tp, o) == Add(Add(Add(s, n), tp), o)

\* mutant: the interest is subtracted
debt_next_minus(prev, total) == Sub(prev, total)

\* model.py:67
debt_next(prev, total) == Add(prev, total)

\* mutant: the zero-debt guard is missing
effective_rate_unguarded(total, prev) == Div(Mul(R(12), total), prev)

\* model.py:68
effective_rate(total, prev) == IF prev # Zero THEN Div(Mul(R(12), total), prev) ELSE Zero

\* mutant: the stock is not carried forward
carry_debt_stale(prev, curr) == prev

\* model.py:78, the stock the next month accrues on
carry_debt(prev, curr) == curr

\* mutant: the primary deficit of the month is added to the stock
month_row_with_deficit(df, p, cfg, rs, rnb, prev, t) ==
    LET s == int_short(rs[t], prev, p.share_SHORT)
        n == int_nb(rnb[t], prev, p.share_NB)
        tp == int_tips(df[t].pce_infl_m, cfg.r_tips_coupon, prev, p.share_TIPS)
        o == int_other(p.other_bps, df[t].nominal_gdp)
        total == net_total(s, n, tp, o)
    IN [Int_SHORT |-> s, Int_NB |-> n, Int_TIPS |-> tp, Int_OTHER |-> o,
        NetInt |-> total,
        Debt |-> Add(debt_next(prev, total),
                     Div(Mul(df[t].primary_deficit_pct_gdp, df[t].nominal_gdp), R(12))),
        r_eff |-> effective_rate(total, prev)]

\* model.py:55-76, the row of month t
month_row(df, p, cfg, rs, rnb, prev, t) ==
    LET s == int_short(rs[t], prev, p.share_SHORT)
        n == int_nb(rnb[t], prev, p.share_NB)
        tp == int_tips(df[t].pce_infl_m, cfg.r_tips_coupon, prev, p.share_TIPS)
        o == int_other(p.other_bps, df[t].nominal_gdp)
        total == net_total(s, n, tp, o)
    IN [Int_SHORT |-> s, Int_NB |-> n, Int_TIPS |-> tp, Int_OTHER |-> o,
        NetInt |-> total, Debt |-> debt_next(prev, total),
        r_eff |-> effective_rate(total, prev)]

----------------------------------------------------------------------------
(* calibrate.calibrate_params: resolving the initial debt stock             *)

\* calibrate.py:78-80 raises KeyError on macro_df['nominal_gdp'] of a frame
\* without that column
calibrate_debt_missing(cols, cfg) ==
    Le(config_debt_value(cfg), Zero) /\ "nominal_gdp" \notin cols

\* calibrate.py:78-80 raises IndexError on .iloc[0] of an empty frame
calibrate_debt_raises(df, cfg) == Le(config_debt_value(cfg), Zero) /\ Len(df) = 0

\* mutant: a configured zero is kept
calibrate_debt_initial_strict(df, cfg) ==
    IF Lt(config_debt_value(cfg), Zero) THEN df[1].nominal_gdp ELSE config_debt_value(cfg)

\* calibrate.py:77-80
calibrate_debt_initial(df, cfg) ==
    IF Le(config_debt_value(cfg), Zero) THEN df[1].nominal_gdp ELSE config_debt_value(cfg)

----------------------------------------------------------------------------
(* calibrate._coefs_to_params                                               *)

\* Python's min(a, b) and max(a, b): the first argument unless the second
\* compares strictly beyond it, so a NaN second argument is never chosen
py_min(a, b) == IF Lt(b, a) THEN b ELSE a
py_max(a, b) == IF Lt(a, b) THEN b ELSE a

\* calibrate.py:54
share_denom(debt) == py_max(debt, One)

\* calibrate.py:55-57, max(0.0, min(1.0, 12.0 * beta / denom))
clip_share(beta, denom) == py_max(Zero, py_min(One, Div(Mul(R(12), beta), denom)))

\* calibrate.py:58
other_bps_of(gamma) == py_max(Zero, Mul(Mul(gamma, R(12)), R(10000)))

\* mutant: the shares are left as clipped
scale_shares_none(shares) == shares

\* mutant: the shares are divided by the largest of them
scale_shares_by_max(shares) ==
    LET ssum == Add(Add(shares[1], shares[2]), shares[3])
        top == py_max(py_max(shares[1], shares[2]), shares[3])
    IN IF Lt(One, ssum)
       THEN <<Div(shares[1], top), Div(shares[2], top), Div(shares[3], top)>>
       ELSE shares

\* calibrate.py:60-65
scale_shares(shares) ==
    LET ssum == Add(Add(shares[1], shares[2]), shares[3])
    IN IF Lt(One, ssum)
       THEN LET scale == Div(One, ssum)
            IN <<Mul(shares[1], scale), Mul(shares[2], scale), Mul(shares[3], scale)>>
       ELSE shares

\* the value _coefs_to_params returns
_coefs_to_params(coef, debt) ==
    LET denom == share_denom(debt)
        shares == scale_shares(<<clip_share(coef[1], denom), clip_share(coef[2], denom),
                                 clip_share(coef[3], denom)>>)
    IN [share_SHORT |-> shares[1], share_NB |-> shares[2], share_TIPS |-> shares[3],
        other_bps |-> other_bps_of(coef[4])]

BetaValues == {NaN, R(-1), Zero, Q(1, 60), Q(1, 24), Q(1, 10), Q(1, 5), One}
GammaValues == {NaN, R(-1), Zero, Q(1, 24000)}
DebtValues == {NaN, R(-4), Zero, Q(1, 2), One, R(2)}

CoefsInit ==
    /\ k_pc = "call"
    /\ k_coef \in BetaValues \X BetaValues \X BetaValues \X GammaValues
    /\ k_debt \in DebtValues
    /\ k_shares = None /\ k_other = None /\ k_ret = None
    /\ EmaIdle
    /\ HalfLifeIdle
    /\ ForecastIdle
    /\ CurveIdle
    /\ AggIdle
    /\ LatestIdle
    /\ ExpandIdle
    /\ BuildIdle

\* calibrate.py:53-58
coefs_clip ==
    /\ k_pc = "call"
    /\ LET denom == share_denom(k_debt)
       IN k_shares' = <<clip_share(k_coef[1], denom), clip_share(k_coef[2], denom),
                        clip_share(k_coef[3], denom)>>
    /\ k_other' = other_bps_of(k_coef[4])
    /\ k_pc' = "clipped"
    /\ UNCHANGED <<k_coef, k_debt, k_ret>>
    /\ UNCHANGED <<evars, hvars, ivars, fvars, cvars, wvars, dvars, avars, lvars, xvars, bvars>>

\* calibrate.py:59-65
coefs_scale ==
    /\ k_pc = "clipped"
    /\ k_shares' = scale_shares(k_shares)
    /\ k_pc' = "scaled"
    /\ UNCHANGED <<k_coef, k_debt, k_other, k_ret>>
    /\ UNCHANGED <<evars, hvars, ivars, fvars, cvars, wvars, dvars, avars, lvars, xvars, bvars>>

\* calibrate.py:66-71
coefs_return ==
    /\ k_pc = "scaled"
    /\ k_ret' = [share_SHORT |-> k_shares[1], share_NB |-> k_shares[2],
                 share_TIPS |-> k_shares[3], other_bps |-> k_other]
    /\ k_pc' = "returned"
    /\ UNCHANGED <<k_coef, k_debt, k_shares, k_other>>
    /\ UNCHANGED <<evars, hvars, ivars, fvars, cvars, wvars, dvars, avars, lvars, xvars, bvars>>

CoefsNext == coefs_clip \/ coefs_scale \/ coefs_return

----------------------------------------------------------------------------
(* calibrate._design_matrix                                                 *)

\* series.fillna(method='ffill'): a missing value takes the last value before
\* it that is present; leading missing values stay missing
ffill(series) ==
    LET f[i \in 0..Len(series)] ==
            IF i = 0 THEN NaN
            ELSE IF IsNaN(series[i]) THEN f[i - 1] ELSE series[i]
    IN [i \in 1..Len(series) |-> f[i]]

\* series.fillna(v)
fillna(series, v) == [i \in 1..Len(series) |-> IF IsNaN(series[i]) THEN v ELSE series[i]]

\* calibrate.py:76, ieod_series.reindex(macro_df.index).fillna(0.0)
align_ieod(series, n) == fillna(reindex(series, n), Zero)

\* series.sum(): missing values are skipped
RECURSIVE series_sum(_)
series_sum(series) ==
    IF series = <<>> THEN Zero
    ELSE Add(nan_term(series[1]), series_sum(Tail(series)))

\* elementwise a * b and a - k * b of two series on one index
series_mul(x, y) == [i \in 1..Len(x) |-> Mul(x[i], y[i])]
series_axpy(x, k, y) == [i \in 1..Len(x) |-> Sub(x[i], Mul(k, y[i]))]

\* mutant: the zero is kept
or_one_unguarded(x) == x

\* `value or 1.0`: 1.0 in place of a zero
or_one(x) == IF x = Zero THEN One ELSE x

\* calibrate.py:19, the blend weights
design_weights == <<Q(1, 5), Q(2, 5), Q(2, 5)>>

\* mutant: the gaps are filled before smoothing
design_rs_filled_first(df, hl_short) ==
    ema(fillna(ffill(Column(df, "r3m")), Zero), half_life_to_alpha(hl_short))

\* calibrate.py:17,20,23
design_rs(df, hl_short) ==
    fillna(ffill(ema(Column(df, "r3m"), half_life_to_alpha(hl_short))), Zero)

\* calibrate.py:18,19,21,24
design_rnb(df, hl_nb) ==
    fillna(ffill(ema(weighted_curve(Column(df, "r2y"), Column(df, "r5y"),
                                    Column(df, "r10y"), design_weights),
                     half_life_to_alpha(hl_nb))), Zero)

\* calibrate.py:25
design_denom(xs) == or_one(series_sum(series_mul(xs, xs)))

\* calibrate.py:26, a division of Python floats
design_a(xs, xnb) == Div(series_sum(series_mul(xnb, xs)), design_denom(xs))

\* calibrate.py:29
design_gdp(df) == fillna(ffill(Column(df, "nominal_gdp")), Zero)

\* calibrate.py:30
design_gdp_scale(df) ==
    LET g == design_gdp(df)[1] IN or_one(IF Lt(g, Zero) THEN Neg(g) ELSE g)

\* calibrate.py:32-37
design_X(df, xs, xnb, a, gdp_scale) ==
    [r_short |-> xs,
     r_nb_resid |-> series_axpy(xnb, a, xs),
     tips_m |-> fillna(ffill(Column(df, "pce_infl_m")), Zero),
     gdp_scaled |-> [i \in 1..Len(df) |-> Div(design_gdp(df)[i], gdp_scale)]]

\* what _design_matrix raises: ValueError for a half-life <= 0
\* (transforms.py:11-12), ZeroDivisionError for a zero divisor at
\* calibrate.py:26, IndexError for .iloc[0] of an empty frame at
\* calibrate.py:30; "none" when it returns
design_error(df, hl_short, hl_nb) ==
    IF half_life_raises(hl_short) \/ half_life_raises(hl_nb) THEN "ValueError"
    ELSE IF design_denom(design_rs(df, hl_short)) = Zero THEN "ZeroDivisionError"
    ELSE IF Len(df) = 0 THEN "IndexError"
    ELSE "none"

\* the value _design_matrix returns: X, a, gdp_scale
_design_matrix(df, hl_short, hl_nb) ==
    LET xs == design_rs(df, hl_short)
        xnb == design_rnb(df, hl_nb)
        a == design_a(xs, xnb)
        gdp_scale == design_gdp_scale(df)
    IN [X |-> design_X(df, xs, xnb, a, gdp_scale), a |-> a, gdp_scale |-> gdp_scale]

----------------------------------------------------------------------------
(* calibrate._ols and the grid search of calibrate_params                   *)

columns(X) == <<X.r_short, X.r_nb_resid, X.tips_m, X.gdp_scaled>>

nonzero_columns(X) ==
    {j \in 1..4 : \E i \in DOMAIN columns(X)[j] : columns(X)[j][i] # Zero}

\* np.linalg.lstsq on a design with at most one non-zero column: the
\* minimum-norm solution puts 0 on every zero column and the projection
\* coefficient on the other; the rank is below 4, so `residuals` is empty and
\* rss is recomputed as ((A @ coef - b) ** 2).sum()
_ols(yy, X) ==
    LET nz == nonzero_columns(X)
    IN CASE nz = {} ->
              [coef |-> <<Zero, Zero, Zero, Zero>>, rss |-> series_sum(series_mul(yy, yy))]
         [] Cardinality(nz) = 1 ->
              LET j == CHOOSE k \in nz : TRUE
                  col == columns(X)[j]
                  c == Div(series_sum(series_mul(col, yy)), series_sum(series_mul(col, col)))
                  resid == [i \in 1..Len(yy) |-> Sub(Mul(c, col[i]), yy[i])]
              IN [coef |-> <<IF j = 1 THEN c ELSE Zero, IF j = 2 THEN c ELSE Zero,
                             IF j = 3 THEN c ELSE Zero, IF j = 4 THEN c ELSE Zero>>,
                  rss |-> series_sum(series_mul(resid, resid))]

\* np.linalg.lstsq on a design of rank two or more is not evaluated: its
\* outcome is any one of these fits
LstsqFits ==
    { [coef |-> <<Q(1, 24), Q(1, 10), Q(1, 60), Zero>>, rss |-> Zero],
      [coef |-> <<One, Q(1, 24), Q(1, 60), Q(1, 24000)>>, rss |-> One] }

\* the outcomes of _ols(y, X)
ols_fits(yy, X) ==
    IF Cardinality(nonzero_columns(X)) <= 1 THEN {_ols(yy, X)} ELSE LstsqFits

\* calibrate.py:83-84
hl_short_grid == <<R(3), R(6), R(12)>>
hl_nb_grid == <<R(12), R(18), R(24), R(30)>>

\* calibrate.py:86, itertools.product(hl_short_grid, hl_nb_grid) in order
grid_cells ==
    [k \in 1..(Len(hl_short_grid) * Len(hl_nb_grid)) |->
        <<hl_short_grid[((k - 1) \div Len(hl_nb_grid)) + 1],
          hl_nb_grid[((k - 1) % Len(hl_nb_grid)) + 1]>>]

\* mutant: the projection is added back with the wrong sign
coef_orig_plus(coef, a, gdp_scale) ==
    <<Add(coef[1], Mul(a, coef[2])), coef[2], coef[3], Div(coef[4], gdp_scale)>>

\* calibrate.py:90-95
coef_orig(coef, a, gdp_scale) ==
    <<Sub(coef[1], Mul(a, coef[2])), coef[2], coef[3], Div(coef[4], gdp_scale)>>

\* mutant: a tie replaces the best cell
improves_on_tie(score, best) == best = None \/ Le(score, best[1])

\* calibrate.py:98
improves(score, best) == best = None \/ Lt(score, best[1])

----------------------------------------------------------------------------
(* Inputs of forecast_monthly and calibrate_params.                         *)

Row(r3m, r2y, r5y, r10y, infl, deficit, gdp) ==
    [r3m |-> r3m, r2y |-> r2y, r5y |-> r5y, r10y |-> r10y,
     pce_infl_m |-> infl, primary_deficit_pct_gdp |-> deficit, nominal_gdp |-> gdp]

MacroRows ==
    { Row(R(6), R(6), R(6), R(6), Zero, R(3), R(4)),           \* flat 6, no inflation
      Row(R(-12), R(-12), R(-12), R(-12), Zero, Zero, Zero),   \* flat -12, zero GDP
      Row(R(12), Zero, R(10), R(20), Q(1, 8), R(-3), R(8)),    \* sloped curve, inflation
      Row(NaN, NaN, R(5), R(10), Q(1, 8), NaN, R(4)) }         \* gaps in r3m and r2y

HalfLifePairs ==
    { <<R(1), Q(1, 2)>>, <<Q(1, 2), R(1)>>, <<Q(1, 2), Q(1, 2)>>,
      <<Zero, R(1)>>, <<R(1), R(-1)>> }

\* <<share_SHORT, share_NB, share_TIPS, other_bps>>
BucketParams ==
    { <<Q(1, 2), Q(1, 2), Zero, Zero>>,            \* no TIPS, no OTHER
      <<Q(1, 2), Q(1, 4), Zero, R(30000)>>,         \* no TIPS
      <<Q(1, 4), Q(1, 2), Q(1, 4), R(30000)>>,      \* all four buckets
      <<Zero, Zero, Q(1, 2), Zero>> }              \* TIPS only

ParamSets ==
    { [hl_SHORT |-> h[1], hl_NB |-> h[2], share_SHORT |-> b[1], share_NB |-> b[2],
       share_TIPS |-> b[3], other_bps |-> b[4]] :
        h \in HalfLifePairs, b \in BucketParams }

\* model.debt_public_initial.value (absent, zero, negative, positive) and
\* model.r_tips_coupon
Configs ==
    { [has_value |-> c[1], value |-> c[2], r_tips_coupon |-> c[3]] :
        c \in { <<FALSE, Zero, Zero>>, <<TRUE, Zero, Zero>>, <<TRUE, R(-4), R(3)>>,
                <<TRUE, R(8), Zero>>, <<TRUE, R(8), R(3)>> } }

----------------------------------------------------------------------------
(* One call of forecast_monthly, then one call of calibrate_params, on the  *)
(* same macro_df and config.                                                *)

Init ==
    /\ macro_df \in SeqsUpTo(MacroRows, MaxMonths)
    /\ macro_columns = AllColumns
    /\ params \in ParamSets
    /\ config \in Configs
    /\ f_pc = "call"
    /\ debt0 = None /\ alpha_s = None /\ alpha_nb = None
    /\ r_short = None /\ r_nb = None /\ debt_prev = None /\ f_t = 0 /\ f_out = <<>>
    /\ c_pc = "call"
    /\ debt_initial = None
    /\ ieod_series = <<>> /\ c_y = None
    /\ c_cell = 0 /\ c_best = None /\ c_scores = <<>> /\ c_ret = None
    /\ d_pc = "call"
    /\ d_rs = None /\ d_rnb = None /\ d_a = None /\ d_gdp_scale = None /\ d_X = None
    /\ EmaIdle
    /\ HalfLifeIdle
    /\ CurveIdle
    /\ CoefsIdle
    /\ AggIdle
    /\ LatestIdle
    /\ ExpandIdle
    /\ BuildIdle

\* model.py:16-20
forecast_resolve ==
    /\ f_pc = "call"
    /\ IF forecast_debt0_missing(macro_columns, config)
       THEN f_pc' = "KeyError" /\ UNCHANGED debt0
       ELSE IF forecast_debt0_raises(macro_df, config)
       THEN f_pc' = "IndexError" /\ UNCHANGED debt0
       ELSE f_pc' = "alphas" /\ debt0' = forecast_debt0(macro_df, config)
    /\ UNCHANGED <<alpha_s, alpha_nb, r_short, r_nb, debt_prev, f_t, f_out>>
    /\ UNCHANGED <<evars, hvars, ivars, cvars, wvars, kvars, dvars, avars, lvars, xvars, bvars>>

\* model.py:22-25
forecast_alphas ==
    /\ f_pc = "alphas"
    /\ IF half_life_raises(params.hl_SHORT) \/ half_life_raises(params.hl_NB)
       THEN f_pc' = "ValueError" /\ UNCHANGED <<alpha_s, alpha_nb>>
       ELSE /\ f_pc' = "smooth"
            /\ alpha_s' = half_life_to_alpha(params.hl_SHORT)
            /\ alpha_nb' = half_life_to_alpha(params.hl_NB)
    /\ UNCHANGED <<debt0, r_short, r_nb, debt_prev, f_t, f_out>>
    /\ UNCHANGED <<evars, hvars, ivars, cvars, wvars, kvars, dvars, avars, lvars, xvars, bvars>>

\* model.py:28-54
forecast_smooth ==
    /\ f_pc = "smooth"
    /\ IF ~({"r2y", "r5y", "r10y", "r3m", "pce_infl_m"} \subseteq macro_columns)
       THEN f_pc' = "KeyError" /\ UNCHANGED <<r_short, r_nb, debt_prev, f_t>>
       ELSE IF ~alpha_in_range(alpha_s) \/ ~alpha_in_range(alpha_nb)
       THEN f_pc' = "ValueError" /\ UNCHANGED <<r_short, r_nb, debt_prev, f_t>>
       ELSE /\ f_pc' = "loop"
            /\ r_short' = ema(Column(macro_df, "r3m"), alpha_s)
            /\ r_nb' = ema(weighted_curve(Column(macro_df, "r2y"), Column(macro_df, "r5y"),
                                          Column(macro_df, "r10y"), curve_weights),
                           alpha_nb)
            /\ debt_prev' = debt0
            /\ f_t' = 1
    /\ UNCHANGED <<debt0, alpha_s, alpha_nb, f_out>>
    /\ UNCHANGED <<evars, hvars, ivars, cvars, wvars, kvars, dvars, avars, lvars, xvars, bvars>>

\* model.py:55-78, one month
forecast_month ==
    /\ f_pc = "loop"
    /\ f_t <= Len(macro_df)
    /\ IF "nominal_gdp" \notin macro_columns
       THEN f_pc' = "KeyError" /\ UNCHANGED <<debt_prev, f_t, f_out>>
       ELSE LET row == month_row(macro_df, params, config, r_short, r_nb, debt_prev, f_t)
            IN /\ f_out' = Append(f_out, row)
               /\ debt_prev' = carry_debt(debt_prev, row.Debt)
               /\ f_t' = f_t + 1
               /\ UNCHANGED f_pc
    /\ UNCHANGED <<debt0, alpha_s, alpha_nb, r_short, r_nb>>
    /\ UNCHANGED <<evars, hvars, ivars, cvars, wvars, kvars, dvars, avars, lvars, xvars, bvars>>

\* model.py:80-89
forecast_return ==
    /\ f_pc = "loop"
    /\ f_t > Len(macro_df)
    /\ f_pc' = "returned"
    /\ UNCHANGED <<debt0, alpha_s, alpha_nb, r_short, r_nb, debt_prev, f_t, f_out>>
    /\ UNCHANGED <<evars, hvars, ivars, cvars, wvars, kvars, dvars, avars, lvars, xvars, bvars>>

ForecastEnded == f_pc \in {"returned", "IndexError", "ValueError", "KeyError"}

\* calibrate.py:76-85
calibrate_resolve ==
    /\ f_pc = "idle" \/ ForecastEnded
    /\ c_pc = "call"
    /\ c_y' = align_ieod(ieod_series, Len(macro_df))
    /\ IF calibrate_debt_missing(macro_columns, config)
       THEN c_pc' = "KeyError" /\ UNCHANGED <<debt_initial, c_cell, c_best>>
       ELSE IF calibrate_debt_raises(macro_df, config)
       THEN c_pc' = "IndexError" /\ UNCHANGED <<debt_initial, c_cell, c_best>>
       ELSE /\ c_pc' = "grid"
            /\ debt_initial' = calibrate_debt_initial(macro_df, config)
            /\ c_cell' = 1
            /\ c_best' = None
    /\ UNCHANGED <<ieod_series, c_scores, c_ret>>
    /\ UNCHANGED <<evars, hvars, ivars, fvars, wvars, kvars, dvars, avars, lvars, xvars, bvars>>

\* calibrate.py:17-24, _design_matrix(macro_df, hl_SHORT, hl_NB) called on the
\* half-life pair the forecast ran with
design_smooth ==
    /\ c_pc # "call"
    /\ d_pc = "call"
    /\ IF half_life_raises(params.hl_SHORT) \/ half_life_raises(params.hl_NB)
       THEN d_pc' = "ValueError" /\ UNCHANGED <<d_rs, d_rnb>>
       ELSE IF ~({"r2y", "r5y", "r10y", "r3m"} \subseteq macro_columns)
       THEN d_pc' = "KeyError" /\ UNCHANGED <<d_rs, d_rnb>>
       ELSE /\ d_pc' = "smoothed"
            /\ d_rs' = design_rs(macro_df, params.hl_SHORT)
            /\ d_rnb' = design_rnb(macro_df, params.hl_NB)
    /\ UNCHANGED <<d_a, d_gdp_scale, d_X>>
    /\ UNCHANGED <<evars, hvars, ivars, fvars, cvars, wvars, kvars, avars, lvars, xvars, bvars>>

\* calibrate.py:25-38
design_build ==
    /\ d_pc = "smoothed"
    /\ IF design_denom(d_rs) = Zero
       THEN d_pc' = "ZeroDivisionError" /\ UNCHANGED <<d_a, d_gdp_scale, d_X>>
       ELSE IF "nominal_gdp" \notin macro_columns
       THEN d_pc' = "KeyError" /\ UNCHANGED <<d_a, d_gdp_scale, d_X>>
       ELSE IF Len(macro_df) = 0
       THEN d_pc' = "IndexError" /\ UNCHANGED <<d_a, d_gdp_scale, d_X>>
       ELSE IF "pce_infl_m" \notin macro_columns
       THEN d_pc' = "KeyError" /\ UNCHANGED <<d_a, d_gdp_scale, d_X>>
       ELSE /\ d_pc' = "returned"
            /\ d_a' = design_a(d_rs, d_rnb)
            /\ d_gdp_scale' = design_gdp_scale(macro_df)
            /\ d_X' = design_X(macro_df, d_rs, d_rnb, design_a(d_rs, d_rnb),
                               design_gdp_scale(macro_df))
    /\ UNCHANGED <<d_rs, d_rnb>>
    /\ UNCHANGED <<evars, hvars, ivars, fvars, cvars, wvars, kvars, avars, lvars, xvars, bvars>>

Next ==
    \/ forecast_resolve
    \/ forecast_alphas
    \/ forecast_smooth
    \/ forecast_month
    \/ forecast_return
    \/ calibrate_resolve
    \/ design_smooth
    \/ design_build

----------------------------------------------------------------------------
(* The same two calls on a MacroSeries that may lack one column.            *)

\* the frame without the columns it lacks
restrict_columns(df, cols) == [i \in 1..Len(df) |-> [c \in cols |-> df[i][c]]]

\* every column present, or exactly one absent
ColumnSets == {AllColumns} \cup {AllColumns \ {c} : c \in AllColumns}

ColumnRows ==
    { Row(R(6), R(6), R(6), R(6), Zero, R(3), R(4)),
      Row(R(12), Zero, R(10), R(20), Q(1, 8), R(-3), R(8)) }

ColumnsInit ==
    /\ macro_columns \in ColumnSets
    /\ \E df \in SeqsUpTo(ColumnRows, MaxMonths) :
          macro_df = restrict_columns(df, macro_columns)
    /\ params \in ParamSets
    /\ config \in Configs
    /\ f_pc = "call"
    /\ debt0 = None /\ alpha_s = None /\ alpha_nb = None
    /\ r_short = None /\ r_nb = None /\ debt_prev = None /\ f_t = 0 /\ f_out = <<>>
    /\ c_pc = "call"
    /\ debt_initial = None
    /\ ieod_series = <<>> /\ c_y = None
    /\ c_cell = 0 /\ c_best = None /\ c_scores = <<>> /\ c_ret = None
    /\ d_pc = "call"
    /\ d_rs = None /\ d_rnb = None /\ d_a = None /\ d_gdp_scale = None /\ d_X = None
    /\ EmaIdle
    /\ HalfLifeIdle
    /\ CurveIdle
    /\ CoefsIdle
    /\ AggIdle
    /\ LatestIdle
    /\ ExpandIdle
    /\ BuildIdle

----------------------------------------------------------------------------
(* One call of calibrate_params, the grid search included.                  *)

\* months whose rate columns are zero or missing: the smoothed rates are then
\* zero whatever the smoothing weight
ZeroRateRows ==
    { Row(Zero, Zero, Zero, Zero, Zero, Zero, R(4)),
      Row(Zero, Zero, Zero, Zero, Zero, Zero, Zero),
      Row(NaN, NaN, NaN, NaN, Zero, Zero, R(8)) }

\* two months with inflation and a growing GDP: a design of rank two
InflationFrame ==
    << Row(Zero, Zero, Zero, Zero, Q(1, 8), Zero, R(4)),
       Row(Zero, Zero, Zero, Zero, Q(1, 8), Zero, R(8)) >>

IeodValues == {R(2), R(-6)}

\* <<macro_df, config, ieod_series>>
CalibrateInputs ==
    (SeqsUpTo(ZeroRateRows, MaxMonths) \X Configs \X SeqsUpTo(IeodValues, MaxMonths))
    \cup { <<InflationFrame, [has_value |-> TRUE, value |-> R(2), r_tips_coupon |-> Zero],
             <<R(2), R(-6)>> >> }

CalibrateInit ==
    /\ \E inp \in CalibrateInputs :
          macro_df = inp[1] /\ config = inp[2] /\ ieod_series = inp[3]
    /\ macro_columns = AllColumns
    /\ c_pc = "call"
    /\ debt_initial = None /\ c_y = None
    /\ c_cell = 0 /\ c_best = None /\ c_scores = <<>> /\ c_ret = None
    /\ EngineIdle
    /\ DesignIdle
    /\ EmaIdle
    /\ HalfLifeIdle
    /\ CurveIdle
    /\ CoefsIdle
    /\ AggIdle
    /\ LatestIdle
    /\ ExpandIdle
    /\ BuildIdle

\* calibrate.py:86-99, one cell of the grid
calibrate_cell ==
    /\ c_pc = "grid"
    /\ c_cell <= Len(grid_cells)
    /\ LET hl == grid_cells[c_cell]
           err == design_error(macro_df, hl[1], hl[2])
       IN IF err # "none"
          THEN c_pc' = err /\ UNCHANGED <<c_cell, c_best, c_scores>>
          ELSE \E dm \in {_design_matrix(macro_df, hl[1], hl[2])} :
                  \E fit \in ols_fits(c_y, dm.X) :
                     LET p == _coefs_to_params(coef_orig(fit.coef, dm.a, dm.gdp_scale),
                                               debt_initial)
                     IN /\ c_best' = IF improves(fit.rss, c_best)
                                      THEN <<fit.rss, hl[1], hl[2], p>> ELSE c_best
                        /\ c_scores' = Append(c_scores, [rss |-> fit.rss, params |-> p])
                        /\ c_cell' = c_cell + 1
                        /\ UNCHANGED c_pc
    /\ UNCHANGED <<debt_initial, ieod_series, c_y, c_ret>>
    /\ UNCHANGED <<evars, hvars, ivars, fvars, wvars, kvars, dvars, avars, lvars, xvars, bvars>>

\* calibrate.py:101-105
calibrate_return ==
    /\ c_pc = "grid"
    /\ c_cell > Len(grid_cells)
    /\ c_ret' = [share_SHORT |-> c_best[4].share_SHORT, share_NB |-> c_best[4].share_NB,
                 share_TIPS |-> c_best[4].share_TIPS, other_bps |-> c_best[4].other_bps,
                 hl_SHORT |-> c_best[2], hl_NB |-> c_best[3]]
    /\ c_pc' = "returned"
    /\ UNCHANGED <<debt_initial, ieod_series, c_y, c_cell, c_best, c_scores>>
    /\ UNCHANGED <<evars, hvars, ivars, fvars, wvars, kvars, dvars, avars, lvars, xvars, bvars>>

CalibrateNext == calibrate_resolve \/ calibrate_cell \/ calibrate_return

----------------------------------------------------------------------------

Spec == Init /\ [][Next]_vars

SpecColumns == ColumnsInit /\ [][Next]_vars

SpecCalibrate == CalibrateInit /\ [][CalibrateNext]_vars

SpecEma == EmaInit /\ [][EmaNext]_vars

SpecHalfLife == HalfLifeInit /\ [][HalfLifeNext]_vars

SpecCurve == CurveInit /\ [][CurveNext]_vars

SpecCoefs == CoefsInit /\ [][CoefsNext]_vars

----------------------------------------------------------------------------
(* Year aggregation: aggregate.aggregate_model_cy/fy on monthly model       *)
(* output, and transforms.aggregate_cy/fy on a map of monthly series.  A    *)
(* timestamp is <<year, month>>, the year and month of a month-end date.    *)

MaxPeriods == 12        \* longest monthly frame handed to the aggregation

\* idx + pd.DateOffset(months = k), on the year and month of the date
add_months(stamp, k) ==
    <<stamp[1] + ((stamp[2] - 1 + k) \div 12), ((stamp[2] - 1 + k) % 12) + 1>>

\* pd.date_range(start, periods = n, freq = 'M')
date_range(start, n) == [i \in 1..n |-> add_months(start, i - 1)]

\* mutant: the fiscal convention labels by the calendar year
_to_year_groups_calendar(idx, fy) == [i \in 1..Len(idx) |-> idx[i][1]]

\* aggregate.py:9-12
_to_year_groups(idx, fy) ==
    [i \in 1..Len(idx) |-> IF fy THEN add_months(idx[i], 3)[1] ELSE idx[i][1]]

\* transforms.py:61-65
series_years(idx, fy) ==
    IF fy THEN [i \in 1..Len(idx) |-> add_months(idx[i], 3)[1]]
    ELSE [i \in 1..Len(idx) |-> idx[i][1]]

\* the keys of df.groupby(years), and the first of them not yet in `out`
group_labels(yrs) == {yrs[i] : i \in 1..Len(yrs)}
next_label(yrs, out) ==
    LET todo == group_labels(yrs) \ {out[i].label : i \in 1..Len(out)}
    IN CHOOSE y \in todo : \A z \in todo : y <= z

\* the values of one column in the rows of one group, in row order
RECURSIVE group_values(_, _, _)
group_values(col, yrs, label) ==
    IF Len(col) = 0 THEN <<>>
    ELSE (IF yrs[1] = label THEN <<col[1]>> ELSE <<>>)
         \o group_values(Tail(col), Tail(yrs), label)

\* Series.sum(min_count = 1): NaN is skipped, NaN when nothing is left
sum_min_count(vals) ==
    IF \A i \in 1..Len(vals) : IsNaN(vals[i]) THEN NaN ELSE series_sum(vals)

\* Series.mean(): NaN is skipped, NaN when nothing is left
mean(vals) ==
    LET ok == SelectSeq(vals, LAMBDA v : ~IsNaN(v))
    IN IF Len(ok) = 0 THEN NaN ELSE Div(series_sum(ok), R(Len(ok)))

\* np.where(den > 0, num / den, np.nan)
safe_ratio(num, den) == IF Lt(Zero, den) THEN Div(num, den) ELSE NaN

\* aggregate.py:20-36 and 44-58, the row of `out` for one label
aggregate_row(df, gdp_column, yrs, label) ==
    LET interest_total == sum_min_count(group_values(Column(df, "NetInt"), yrs, label))
        debt_avg == mean(group_values(Column(df, "Debt"), yrs, label))
        gdp_total ==
            IF gdp_column
            THEN Div(sum_min_count(group_values(Column(df, "nominal_gdp"), yrs, label)),
                     R(12))
            ELSE Zero
    IN [label |-> label,
        interest_total |-> interest_total,
        debt_avg |-> debt_avg,
        gdp_total |-> gdp_total,
        r_eff |-> safe_ratio(interest_total, debt_avg),
        interest_pct_gdp |-> safe_ratio(interest_total, gdp_total)]

\* the position of a timestamp in the order of dates
stamp_ord(stamp) == stamp[1] * 12 + stamp[2]

\* transforms.py:55-58, pd.DatetimeIndex(sorted(all_idx)) of a set of stamps
RECURSIVE sorted_index(_)
sorted_index(stamps) ==
    IF stamps = {} THEN <<>>
    ELSE LET first == CHOOSE x \in stamps :
                          \A z \in stamps : stamp_ord(x) <= stamp_ord(z)
         IN <<first>> \o sorted_index(stamps \ {first})

\* the index of a series of <<stamp, value>> entries
series_index(series) == {series[i][1] : i \in 1..Len(series)}

\* transforms.py:59, v.reindex(all_idx).fillna(0.0)
aligned_series(series, all_idx) ==
    [i \in 1..Len(all_idx) |->
        IF all_idx[i] \in series_index(series)
        THEN nan_term((CHOOSE e \in {series[j] : j \in 1..Len(series)} :
                          e[1] = all_idx[i])[2])
        ELSE Zero]

\* transforms.py:55-60, the frame `df`: its index and its columns by name
aligned_frame(smap) ==
    LET all_idx == sorted_index(UNION {series_index(smap[k]) : k \in DOMAIN smap})
    IN [index |-> all_idx,
        columns |-> [k \in DOMAIN smap |-> aligned_series(smap[k], all_idx)]]

\* the sum of the entries of one row of `out` (out.sum(axis = 1))
RECURSIVE row_total(_, _)
row_total(sums, names) ==
    IF names = {} THEN Zero
    ELSE LET k == CHOOSE x \in names : TRUE
         IN Add(nan_term(sums[k]), row_total(sums, names \ {k}))

\* transforms.py:66-67, the row of `out` for one label
series_row(df, yrs, label) ==
    LET sums == [k \in DOMAIN df.columns |->
                    series_sum(group_values(df.columns[k], yrs, label))]
    IN [label |-> label, sums |-> sums, total |-> row_total(sums, DOMAIN sums)]

\* the arguments: frames on pd.date_range(start, periods), columns that are
\* constant, missing in places, all missing, or rising
StartStamps == {<<2019, 10>>, <<2020, 1>>, <<2019, 9>>}
NetIntColumns ==
    { [i \in 1..MaxPeriods |-> R(18)], [i \in 1..MaxPeriods |-> R(120)],
      [i \in 1..MaxPeriods |-> IF i % 2 = 0 THEN NaN ELSE R(18)],
      [i \in 1..MaxPeriods |-> NaN] }
DebtColumns ==
    { [i \in 1..MaxPeriods |-> R(100 + 10 * (i - 1))], [i \in 1..MaxPeriods |-> Zero],
      [i \in 1..MaxPeriods |-> NaN] }
GdpColumns ==
    { [i \in 1..MaxPeriods |-> R(1000)], [i \in 1..MaxPeriods |-> R(10000 + 12 * i)],
      [i \in 1..MaxPeriods |-> Zero] }

MonthlyFrame(start, n, netint, debt, gdp) ==
    [i \in 1..n |-> [stamp |-> date_range(start, n)[i], NetInt |-> netint[i],
                     Debt |-> debt[i], nominal_gdp |-> gdp[i]]]

\* a series_map of two series, the second on an index `shift` months later
SeriesMap(start, n, netint, debt, shift) ==
    [NetInt |-> [i \in 1..n |-> <<date_range(start, n)[i], netint[i]>>],
     Debt |-> [i \in 1..n |-> <<date_range(add_months(start, shift), n)[i], debt[i]>>]]

AggInit ==
    /\ a_pc = "call"
    /\ a_fy \in BOOLEAN
    /\ \E start \in StartStamps, n \in 0..MaxPeriods, netint \in NetIntColumns,
          debt \in DebtColumns :
          \/ /\ a_fn = "aggregate"
             /\ has_gdp \in BOOLEAN
             /\ \E gdp \in GdpColumns :
                   monthly_df = MonthlyFrame(start, n, netint, debt, gdp)
             /\ series_map = None
          \/ /\ a_fn = "transforms"
             /\ has_gdp = FALSE
             /\ monthly_df = <<>>
             /\ \E shift \in {0, 2} : series_map = SeriesMap(start, n, netint, debt, shift)
    /\ a_df = None /\ years = None /\ a_out = None
    /\ EmaIdle
    /\ HalfLifeIdle
    /\ ForecastIdle
    /\ CurveIdle
    /\ CoefsIdle
    /\ LatestIdle
    /\ ExpandIdle
    /\ BuildIdle

\* aggregate.py:16-18 and 41-43
agg_group ==
    /\ a_pc = "call" /\ a_fn = "aggregate"
    /\ years' = _to_year_groups(Column(monthly_df, "stamp"), a_fy)
    /\ a_out' = <<>>
    /\ a_pc' = "grouped"
    /\ UNCHANGED <<a_fn, a_fy, monthly_df, has_gdp, series_map, a_df>>
    /\ UNCHANGED <<evars, hvars, ivars, fvars, cvars, wvars, kvars, dvars, lvars, xvars, bvars>>

\* aggregate.py:20-36 and 44-58, one label of the groupby
agg_row ==
    /\ a_pc = "grouped" /\ a_fn = "aggregate"
    /\ Len(a_out) < Cardinality(group_labels(years))
    /\ a_out' = Append(a_out, aggregate_row(monthly_df, has_gdp, years,
                                            next_label(years, a_out)))
    /\ UNCHANGED <<a_pc, a_fn, a_fy, monthly_df, has_gdp, series_map, a_df, years>>
    /\ UNCHANGED <<evars, hvars, ivars, fvars, cvars, wvars, kvars, dvars, lvars, xvars, bvars>>

\* aggregate.py:37 and 59
agg_return ==
    /\ a_pc = "grouped" /\ a_fn = "aggregate"
    /\ Len(a_out) = Cardinality(group_labels(years))
    /\ a_pc' = "returned"
    /\ UNCHANGED <<a_fn, a_fy, monthly_df, has_gdp, series_map, a_df, years, a_out>>
    /\ UNCHANGED <<evars, hvars, ivars, fvars, cvars, wvars, kvars, dvars, lvars, xvars, bvars>>

\* transforms.py:55-60
series_align ==
    /\ a_pc = "call" /\ a_fn = "transforms"
    /\ a_df' = aligned_frame(series_map)
    /\ a_pc' = "aligned"
    /\ UNCHANGED <<a_fn, a_fy, monthly_df, has_gdp, series_map, years, a_out>>
    /\ UNCHANGED <<evars, hvars, ivars, fvars, cvars, wvars, kvars, dvars, lvars, xvars, bvars>>

\* transforms.py:61-65
series_group ==
    /\ a_pc = "aligned" /\ a_fn = "transforms"
    /\ years' = series_years(a_df.index, a_fy)
    /\ a_out' = <<>>
    /\ a_pc' = "grouped"
    /\ UNCHANGED <<a_fn, a_fy, monthly_df, has_gdp, series_map, a_df>>
    /\ UNCHANGED <<evars, hvars, ivars, fvars, cvars, wvars, kvars, dvars, lvars, xvars, bvars>>

\* transforms.py:66-67, one label of the groupby
series_sum_row ==
    /\ a_pc = "grouped" /\ a_fn = "transforms"
    /\ Len(a_out) < Cardinality(group_labels(years))
    /\ a_out' = Append(a_out, series_row(a_df, years, next_label(years, a_out)))
    /\ UNCHANGED <<a_pc, a_fn, a_fy, monthly_df, has_gdp, series_map, a_df, years>>
    /\ UNCHANGED <<evars, hvars, ivars, fvars, cvars, wvars, kvars, dvars, lvars, xvars, bvars>>

\* transforms.py:68
series_return ==
    /\ a_pc = "grouped" /\ a_fn = "transforms"
    /\ Len(a_out) = Cardinality(group_labels(years))
    /\ a_pc' = "returned"
    /\ UNCHANGED <<a_fn, a_fy, monthly_df, has_gdp, series_map, a_df, years, a_out>>
    /\ UNCHANGED <<evars, hvars, ivars, fvars, cvars, wvars, kvars, dvars, lvars, xvars, bvars>>

AggNext ==
    \/ agg_group
    \/ agg_row
    \/ agg_return
    \/ series_align
    \/ series_group
    \/ series_sum_row
    \/ series_return

SpecAgg == AggInit /\ [][AggNext]_vars

----------------------------------------------------------------------------
(* io_utils.find_latest_ieod_csv.  A file name is a record: kind "dated"    *)
(* is IntExp_<start>_<end>.csv, kind "escaped" is IntExp_<start>_<end>\.csv  *)
(* (a backslash before .csv), kind "plain" is IntExp_<tag>.csv and kind      *)
(* "foreign" is a name IntExp_*.csv does not match.                          *)

MaxMtime == 2           \* modification times 1..MaxMtime

Dated(start, end) == [kind |-> "dated", start |-> start, end |-> end, tag |-> ""]
Escaped(start, end) == [kind |-> "escaped", start |-> start, end |-> end, tag |-> ""]
Plain(tag) == [kind |-> "plain", start |-> 0, end |-> 0, tag |-> tag]
Foreign(tag) == [kind |-> "foreign", start |-> 0, end |-> 0, tag |-> tag]

\* io_utils.py:32, input_path.glob("IntExp_*.csv")
glob_matches(name) == name.kind \in {"dated", "escaped", "plain"}

\* io_utils.py:23, _IEOD_PATTERN.match: after the two 8-digit tokens the
\* pattern r"\\.csv$" asks for a backslash, any one character, and csv
pattern_matches(name) == name.kind = "escaped"

\* io_utils.py:36-43
key_by_end_date(name) == IF pattern_matches(name) THEN <<name.end>> ELSE None

\* the order of the tags of plain names as strings
TagOrder == <<"na", "unknown">>
tag_rank(tag) == CHOOSE i \in 1..Len(TagOrder) : TagOrder[i] = tag

\* the order of two paths of one directory as strings: a digit sorts before a
\* letter, and '.' before the backslash
path_less(a, b) ==
    LET da == a.kind \in {"dated", "escaped"}
        db == b.kind \in {"dated", "escaped"}
    IN IF da /\ db
       THEN \/ a.start < b.start
            \/ a.start = b.start /\ a.end < b.end
            \/ a.start = b.start /\ a.end = b.end /\ a.kind = "dated" /\ b.kind = "escaped"
       ELSE IF da # db THEN da
       ELSE tag_rank(a.tag) < tag_rank(b.tag)

\* io_utils.py:32, sorted(...) of a set of entries
RECURSIVE sorted_paths(_)
sorted_paths(entries) ==
    IF entries = {} THEN <<>>
    ELSE LET first == CHOOSE e \in entries :
                          \A f \in entries \ {e} : path_less(e.name, f.name)
         IN <<first>> \o sorted_paths(entries \ {first})

\* the order of Python tuples of two numbers
pair_less(k1, k2) == k1[1] < k2[1] \/ (k1[1] = k2[1] /\ k1[2] < k2[2])

\* max(seq, key = ...), keys[i] being the key of seq[i]: the first element of
\* the sequence whose key no other exceeds
first_max(seq, keys) ==
    seq[CHOOSE i \in 1..Len(seq) :
            /\ \A j \in 1..Len(seq) : ~pair_less(keys[i], keys[j])
            /\ \A j \in 1..(i - 1) : pair_less(keys[j], keys[i])]

\* io_utils.py:49, the keys (-1, 0) and (0, k)
parsed_key(p) == IF p[2] = None THEN <<-1, 0>> ELSE <<0, p[2][1]>>

\* io_utils.py:52, st_mtime as a key
mtime_key(p) == <<0, p.mtime>>

IeodNames ==
    { Dated(20100531, 20250731), Dated(20190531, 20200630),
      Escaped(20100531, 20250731), Escaped(20190531, 20200630),
      Plain("na"), Plain("unknown"), Foreign("notes") }

\* the directories: each name absent, or a file with a modification time; the
\* plain name "unknown" may also be a sub-directory
Directories ==
    { {[name |-> n, is_file |-> f[n][1], mtime |-> f[n][2]] : n \in DOMAIN f} :
        f \in UNION { [names -> (({TRUE} \X (1..MaxMtime)) \cup {<<FALSE, 1>>})] :
                        names \in SUBSET IeodNames } }

LatestInit ==
    /\ l_pc = "call"
    /\ l_dir \in { d \in Directories :
                     \A e \in d : ~e.is_file => e.name = Plain("unknown") }
    /\ l_candidates = None /\ l_parsed = None /\ l_ret = None
    /\ EmaIdle
    /\ HalfLifeIdle
    /\ ForecastIdle
    /\ CurveIdle
    /\ CoefsIdle
    /\ AggIdle
    /\ ExpandIdle
    /\ BuildIdle

\* io_utils.py:31-34
latest_glob ==
    /\ l_pc = "call"
    /\ LET found == sorted_paths({e \in l_dir : glob_matches(e.name) /\ e.is_file})
       IN /\ l_candidates' = found
          /\ l_pc' = IF Len(found) = 0 THEN "FileNotFoundError" ELSE "candidates"
    /\ UNCHANGED <<l_dir, l_parsed, l_ret>>
    /\ UNCHANGED <<evars, hvars, ivars, fvars, cvars, wvars, kvars, dvars, avars, xvars, bvars>>

\* io_utils.py:36-46
latest_parse ==
    /\ l_pc = "candidates"
    /\ l_parsed' = [i \in 1..Len(l_candidates) |->
                       <<l_candidates[i], key_by_end_date(l_candidates[i].name)>>]
    /\ l_pc' = "parsed"
    /\ UNCHANGED <<l_dir, l_candidates, l_ret>>
    /\ UNCHANGED <<evars, hvars, ivars, fvars, cvars, wvars, kvars, dvars, avars, xvars, bvars>>

\* io_utils.py:47-53
latest_choose ==
    /\ l_pc = "parsed"
    /\ l_ret' = IF \E i \in 1..Len(l_parsed) : l_parsed[i][2] # None
                THEN first_max(l_parsed, [i \in 1..Len(l_parsed) |-> parsed_key(l_parsed[i])])[1].name
                ELSE first_max(l_candidates,
                               [i \in 1..Len(l_candidates) |-> mtime_key(l_candidates[i])]).name
    /\ l_pc' = "returned"
    /\ UNCHANGED <<l_dir, l_candidates, l_parsed>>
    /\ UNCHANGED <<evars, hvars, ivars, fvars, cvars, wvars, kvars, dvars, avars, xvars, bvars>>

LatestNext == latest_glob \/ latest_parse \/ latest_choose

SpecLatest == LatestInit /\ [][LatestNext]_vars

----------------------------------------------------------------------------
(* io_utils.expand_macro_series.  The window is model.start, the first day  *)
(* of a month, to model.end, a month-end; idx holds the month-ends between   *)
(* them as <<year, month>>.  A series of macro_series is [frequency, values] *)
(* with values a set of <<key, value>>: the key of an annual value is its    *)
(* year, the key of a monthly value is <<year, month, at_month_end>>.        *)
(* (1 + a) ** (1/12) - 1 is irrational for a rate a # 0: it is the value     *)
(* <<n, d, 12>> for a = n/d.  A GDP level is [base, months]: base times the  *)
(* product of (1 + a) ** (1/12) over the bag `months` of annual rates a.     *)

\* io_utils.py:84-86, pd.date_range(start, end, freq = "ME")
_month_end_range(start, end) ==
    [i \in 1..(stamp_ord(end) - stamp_ord(start) + 1) |-> add_months(start, i - 1)]

\* io_utils.py:89-91
_annual_to_monthly_compounded(rate_annual) ==
    IF IsNaN(rate_annual) THEN NaN
    ELSE IF rate_annual = Zero THEN Zero
    ELSE <<rate_annual[1], rate_annual[2], 12>>

\* the value a set of <<key, value>> holds for a key, NaN for none
value_at(values, key) ==
    IF \E e \in values : e[1] = key THEN (CHOOSE e \in values : e[1] = key)[2] ELSE NaN

\* io_utils.py:107-115, a monthly series: a value is found by reindex(idx)
\* only under a key that is a month-end of idx
monthly_series(values, idx) ==
    [i \in 1..Len(idx) |-> value_at(values, <<idx[i][1], idx[i][2], TRUE>>)]

\* io_utils.py:116-126, an annual series: the values sit on 31 December, are
\* reindexed to the year-ends between idx.min() and idx.max(), and each month
\* takes the entry of the last of those year-ends at or before it
annual_series(values, idx) ==
    [i \in 1..Len(idx) |->
        LET year_ends == {j \in 1..i : idx[j][2] = 12}
        IN IF year_ends = {} THEN NaN
           ELSE value_at(values, idx[CHOOSE j \in year_ends :
                                         \A k \in year_ends : k <= j][1])]

\* io_utils.py:103-127, get_series(name, default_freq)
get_series_raises(ms, name, default_freq) ==
    (IF name \in DOMAIN ms THEN ms[name].frequency ELSE default_freq) \notin {"M", "A"}
get_series(ms, name, default_freq, idx) ==
    LET freq == IF name \in DOMAIN ms THEN ms[name].frequency ELSE default_freq
        values == IF name \in DOMAIN ms THEN ms[name].values ELSE {}
    IN IF freq = "M" THEN monthly_series(values, idx) ELSE annual_series(values, idx)

\* io_utils.py:152, level * (1.0 + monthly_g)
grow(level, monthly_g) ==
    IF IsNaN(monthly_g) \/ IsNaN(level.base) THEN [base |-> NaN, months |-> EmptyBag]
    ELSE IF monthly_g = Zero THEN level
    ELSE LET a == <<monthly_g[1], monthly_g[2]>>
             more == level.months (+) SetToBag({a})
         IN IF CopiesIn(a, more) = 12
            THEN [base |-> Mul(level.base, Add(One, a)),
                  months |-> [r \in DOMAIN more \ {a} |-> more[r]]]
            ELSE [base |-> level.base, months |-> more]

\* io_utils.py:146-153, the level after the first i months
RECURSIVE gdp_level(_, _, _)
gdp_level(gdp_initial, gdp_growth_m, i) ==
    IF i = 0 THEN [base |-> gdp_initial, months |-> EmptyBag]
    ELSE grow(gdp_level(gdp_initial, gdp_growth_m, i - 1), gdp_growth_m[i])

\* the arguments
WindowStarts == {<<2020, 1>>, <<2019, 7>>}
RateSpecs ==
    { [frequency |-> "A", values |-> {<<2020, Q(6, 125)>>}],
      [frequency |-> "A", values |-> {<<2019, Q(1, 25)>>, <<2020, Q(6, 125)>>}],
      [frequency |-> "M", values |-> {<<(<<2020, m, FALSE>>), Q(6, 125)>> : m \in 1..12}],
      [frequency |-> "M", values |-> {<<(<<2020, m, TRUE>>), Q(6, 125)>> : m \in 1..12}],
      [frequency |-> "Q", values |-> {}] }
FlowSpecs ==
    { [frequency |-> "A", values |-> {<<2020, Q(3, 125)>>}],
      [frequency |-> "A", values |-> {<<2019, Q(1, 50)>>, <<2020, Q(3, 125)>>}],
      [frequency |-> "A", values |-> {}] }
GdpInitials == {R(100), Zero}

\* macro_series: the four rates on one specification (or absent), the three
\* annual flows on another
MacroSeriesOf(rates, flows) ==
    [name \in {"pce_infl", "primary_deficit", "nominal_gdp_growth"}
              \cup (IF rates = None THEN {} ELSE {"r3m", "r2y", "r5y", "r10y"}) |->
        IF name \in {"r3m", "r2y", "r5y", "r10y"} THEN rates ELSE flows]

ExpandInit ==
    /\ x_pc = "call"
    /\ \E start \in WindowStarts \cup {None}, n \in 1..MaxPeriods,
          rates \in RateSpecs \cup {None}, flows \in FlowSpecs, g \in GdpInitials :
          x_cfg = [start |-> start,
                   end |-> IF start = None THEN <<2020, 12>> ELSE add_months(start, n - 1),
                   nominal_gdp_initial |-> g,
                   macro_series |-> MacroSeriesOf(rates, flows)]
    /\ x_idx = None /\ x_series = None /\ x_out = None
    /\ EmaIdle
    /\ HalfLifeIdle
    /\ ForecastIdle
    /\ CurveIdle
    /\ CoefsIdle
    /\ AggIdle
    /\ LatestIdle
    /\ BuildIdle

\* io_utils.py:95-100
expand_window ==
    /\ x_pc = "call"
    /\ IF x_cfg.start = None \/ x_cfg.end = None
       THEN x_pc' = "ValueError" /\ UNCHANGED x_idx
       ELSE x_pc' = "rates" /\ x_idx' = _month_end_range(x_cfg.start, x_cfg.end)
    /\ UNCHANGED <<x_cfg, x_series, x_out>>
    /\ UNCHANGED <<evars, hvars, ivars, fvars, cvars, wvars, kvars, dvars, avars, lvars, bvars>>

\* io_utils.py:129-132
expand_rates ==
    /\ x_pc = "rates"
    /\ IF \E name \in {"r3m", "r2y", "r5y", "r10y"} :
             get_series_raises(x_cfg.macro_series, name, "M")
       THEN x_pc' = "ValueError" /\ UNCHANGED x_series
       ELSE /\ x_pc' = "flows"
            /\ x_series' = [name \in {"r3m", "r2y", "r5y", "r10y"} |->
                               get_series(x_cfg.macro_series, name, "M", x_idx)]
    /\ UNCHANGED <<x_cfg, x_idx, x_out>>
    /\ UNCHANGED <<evars, hvars, ivars, fvars, cvars, wvars, kvars, dvars, avars, lvars, bvars>>

\* io_utils.py:135-143
expand_flows ==
    /\ x_pc = "flows"
    /\ IF \E name \in {"pce_infl", "primary_deficit", "nominal_gdp_growth"} :
             get_series_raises(x_cfg.macro_series, name, "A")
       THEN x_pc' = "ValueError" /\ UNCHANGED x_series
       ELSE LET filled(name) == fillna(get_series(x_cfg.macro_series, name, "A", x_idx), Zero)
                monthly(series) ==
                    [i \in 1..Len(series) |-> _annual_to_monthly_compounded(series[i])]
            IN /\ x_pc' = "gdp"
               /\ x_series' =
                     [name \in DOMAIN x_series \cup {"pce_m", "prim_def_pct", "gdp_growth_m"} |->
                         CASE name = "pce_m" -> monthly(filled("pce_infl"))
                           [] name = "prim_def_pct" -> filled("primary_deficit")
                           [] name = "gdp_growth_m" -> monthly(filled("nominal_gdp_growth"))
                           [] OTHER -> x_series[name]]
    /\ UNCHANGED <<x_cfg, x_idx, x_out>>
    /\ UNCHANGED <<evars, hvars, ivars, fvars, cvars, wvars, kvars, dvars, avars, lvars, bvars>>

\* io_utils.py:144-153
expand_gdp ==
    /\ x_pc = "gdp"
    /\ x_series' = [name \in DOMAIN x_series \cup {"gdp"} |->
                       IF name = "gdp"
                       THEN [i \in 1..Len(x_idx) |->
                                gdp_level(x_cfg.nominal_gdp_initial, x_series.gdp_growth_m, i)]
                       ELSE x_series[name]]
    /\ x_pc' = "frame"
    /\ UNCHANGED <<x_cfg, x_idx, x_out>>
    /\ UNCHANGED <<evars, hvars, ivars, fvars, cvars, wvars, kvars, dvars, avars, lvars, bvars>>

\* io_utils.py:155-167
expand_return ==
    /\ x_pc = "frame"
    /\ x_out' = [i \in 1..Len(x_idx) |->
                    [r3m |-> x_series.r3m[i], r2y |-> x_series.r2y[i],
                     r5y |-> x_series.r5y[i], r10y |-> x_series.r10y[i],
                     pce_infl_m |-> x_series.pce_m[i],
                     primary_deficit_pct_gdp |-> x_series.prim_def_pct[i],
                     nominal_gdp |-> x_series.gdp[i]]]
    /\ x_pc' = "returned"
    /\ UNCHANGED <<x_cfg, x_idx, x_series>>
    /\ UNCHANGED <<evars, hvars, ivars, fvars, cvars, wvars, kvars, dvars, avars, lvars, bvars>>

ExpandNext ==
    \/ expand_window
    \/ expand_rates
    \/ expand_flows
    \/ expand_gdp
    \/ expand_return

SpecExpand == ExpandInit /\ [][ExpandNext]_vars

----------------------------------------------------------------------------
(* transforms.build_ieod_monthly_total.  df_ieod is the cleaned expense      *)
(* table (io_utils.load_ieod drops rows without a date or an amount): a      *)
(* sequence of rows [date, amount] with date <<year, month, day>>.  The      *)
(* result is a series, a sequence of [month, total] in index order.          *)

\* bound: rows of df_ieod
MaxRows == 3

\* the order of timestamps
date_ord(date) == (date[1] * 12 + date[2]) * 32 + date[3]

days_in_month(year, month) ==
    IF month = 2
    THEN (IF year % 4 = 0 /\ (year % 100 # 0 \/ year % 400 = 0) THEN 29 ELSE 28)
    ELSE IF month \in {4, 6, 9, 11} THEN 30 ELSE 31

\* transforms.py:47, .dt.to_period("M").dt.to_timestamp("M"): the last day of
\* the month of the date
month_end(date) == <<date[1], date[2], days_in_month(date[1], date[2])>>

\* mutant: the end of the window is exclusive
in_window_open(date, start, now) ==
    date_ord(date) >= date_ord(start) /\ date_ord(date) < date_ord(now)

\* transforms.py:46, the row mask
in_window(date, start, now) ==
    date_ord(date) >= date_ord(start) /\ date_ord(date) <= date_ord(now)

\* the rows of a frame a mask keeps, in order
RECURSIVE select_rows(_, _)
select_rows(df, keep) ==
    IF df = <<>> THEN <<>>
    ELSE LET rest == select_rows(Tail(df), [i \in 1..(Len(df) - 1) |-> keep[i + 1]])
         IN IF keep[1] THEN <<Head(df)>> \o rest ELSE rest

\* the sum of a column, in row order
RECURSIVE sum_amounts(_)
sum_amounts(df) ==
    IF df = <<>> THEN 0 ELSE Head(df).amount + sum_amounts(Tail(df))

\* the keys of a set of dates in ascending order
RECURSIVE sorted_dates(_)
sorted_dates(dates) ==
    IF dates = {} THEN <<>>
    ELSE LET d == CHOOSE x \in dates : \A y \in dates : date_ord(x) <= date_ord(y)
         IN <<d>> \o sorted_dates(dates \ {d})

\* transforms.py:48, groupby("month")[amount].sum().sort_index()
groupby_month_sum(df) ==
    LET months == sorted_dates({df[i].month : i \in 1..Len(df)})
    IN [k \in 1..Len(months) |->
           [month |-> months[k],
            total |-> sum_amounts(select_rows(df, [i \in 1..Len(df) |->
                                                      df[i].month = months[k]]))]]

\* the arguments
RecordDates == {<<2020, 8, 31>>, <<2020, 9, 1>>, <<2020, 10, 15>>, <<2020, 10, 31>>,
                <<2020, 12, 31>>}
Amounts == {10, -10}
IeodRows == [date : RecordDates, amount : Amounts]
BuildStarts == {<<2020, 9, 1>>, <<2020, 10, 15>>}
BuildNows == {<<2020, 10, 31>>, <<2020, 12, 31>>}

BuildInit ==
    /\ b_pc = "call"
    /\ b_ieod \in UNION {[1..n -> IeodRows] : n \in 0..MaxRows}
    /\ b_start \in BuildStarts
    /\ b_now \in BuildNows
    /\ b_df = None /\ b_ret = None
    /\ EmaIdle
    /\ HalfLifeIdle
    /\ ForecastIdle
    /\ CurveIdle
    /\ CoefsIdle
    /\ AggIdle
    /\ LatestIdle
    /\ ExpandIdle

\* transforms.py:45-46
build_filter ==
    /\ b_pc = "call"
    /\ b_df' = select_rows(b_ieod, [i \in 1..Len(b_ieod) |->
                                       in_window(b_ieod[i].date, b_start, b_now)])
    /\ b_pc' = "bucket"
    /\ UNCHANGED <<b_ieod, b_start, b_now, b_ret>>
    /\ UNCHANGED <<evars, hvars, ivars, fvars, cvars, wvars, kvars, dvars, avars, lvars, xvars>>

\* transforms.py:47
build_bucket ==
    /\ b_pc = "bucket"
    /\ b_df' = [i \in 1..Len(b_df) |->
                   [date |-> b_df[i].date, amount |-> b_df[i].amount,
                    month |-> month_end(b_df[i].date)]]
    /\ b_pc' = "group"
    /\ UNCHANGED <<b_ieod, b_start, b_now, b_ret>>
    /\ UNCHANGED <<evars, hvars, ivars, fvars, cvars, wvars, kvars, dvars, avars, lvars, xvars>>

\* transforms.py:48-50
build_group ==
    /\ b_pc = "group"
    /\ b_ret' = groupby_month_sum(b_df)
    /\ b_pc' = "returned"
    /\ UNCHANGED <<b_ieod, b_start, b_now, b_df>>
    /\ UNCHANGED <<evars, hvars, ivars, fvars, cvars, wvars, kvars, dvars, avars, lvars, xvars>>

BuildNext ==
    \/ build_filter
    \/ build_bucket
    \/ build_group

SpecBuild == BuildInit /\ [][BuildNext]_vars

----------------------------------------------------------------------------
(* Properties.                                                              *)

\* Debt[t-1]: the resolved initial stock before the first row
PrevDebt(t) == IF t = 1 THEN debt0 ELSE f_out[t - 1].Debt

\* the exponential smoother, stated as a recurrence
Smoothed(series, a) ==
    LET f[i \in 1..Len(series)] ==
            IF i = 1 THEN series[1]
            ELSE Add(Mul(a, series[i]), Mul(Sub(One, a), f[i - 1]))
    IN f

MissingAsZero(x) == IF IsNaN(x) THEN Zero ELSE x

\* 0.2*r2y + 0.4*r5y + 0.4*r10y of month i, a missing value adding nothing
Blend(i) ==
    Add(Add(MissingAsZero(Mul(Q(1, 5), macro_df[i].r2y)),
            MissingAsZero(Mul(Q(2, 5), macro_df[i].r5y))),
        MissingAsZero(Mul(Q(2, 5), macro_df[i].r10y)))

\* C1: in every row written, NetInt is the sum of the four bucket accruals
\* and Debt[t] = Debt[t-1] + NetInt[t], Debt[-1] being the resolved initial
\* stock; the returned trajectory has one row per month.
C1_DebtRecursion ==
    /\ \A t \in 1..Len(f_out) :
          /\ f_out[t].NetInt =
                Add(Add(Add(f_out[t].Int_SHORT, f_out[t].Int_NB), f_out[t].Int_TIPS),
                    f_out[t].Int_OTHER)
          /\ f_out[t].Debt = Add(PrevDebt(t), f_out[t].NetInt)
    /\ f_pc = "returned" => Len(f_out) = Len(macro_df)

C1_Witness ==
    /\ f_pc = "returned"
    /\ Len(f_out) >= 3
    /\ \A t \in 1..Len(f_out) :
          /\ ~IsNaN(f_out[t].Debt)
          /\ f_out[t].NetInt # Zero
          /\ f_out[t].Int_OTHER # Zero

\* C2: in every row, r_eff[t] = 12 * NetInt[t] / Debt[t-1] when Debt[t-1] is
\* not zero and 0 when it is zero; r_eff is undefined only where NetInt or
\* Debt[t-1] already is (no division by zero happens).
C2_EffectiveRate ==
    \A t \in 1..Len(f_out) :
        /\ f_out[t].r_eff =
              IF PrevDebt(t) = Zero THEN Zero
              ELSE Div(Mul(R(12), f_out[t].NetInt), PrevDebt(t))
        /\ IsNaN(f_out[t].r_eff) => IsNaN(f_out[t].NetInt) \/ IsNaN(PrevDebt(t))

C2_Witness ==
    /\ f_pc = "returned"
    /\ \E t \in 1..Len(f_out) : PrevDebt(t) = Zero /\ f_out[t].NetInt # Zero
    /\ \E t \in 1..Len(f_out) : PrevDebt(t) # Zero /\ Lt(Zero, f_out[t].r_eff)

\* C3: in every row, Int_TIPS[t] = (pce_infl_m[t] + r_tips_coupon/12) *
\* Debt[t-1] * share_TIPS, which with a zero coupon is pce_infl_m[t] *
\* Debt[t-1] * share_TIPS: the inflation term is not divided by 12.
C3_TipsAccrual ==
    \A t \in 1..Len(f_out) :
        /\ f_out[t].Int_TIPS =
              Mul(Mul(Add(macro_df[t].pce_infl_m, Div(config.r_tips_coupon, R(12))),
                      PrevDebt(t)), params.share_TIPS)
        /\ config.r_tips_coupon = Zero =>
              f_out[t].Int_TIPS =
                 Mul(Mul(macro_df[t].pce_infl_m, PrevDebt(t)), params.share_TIPS)

C3_Witness ==
    /\ f_pc = "returned"
    /\ config.r_tips_coupon = Zero
    /\ \E t \in 2..Len(f_out) :
          /\ Lt(Zero, f_out[t].Int_TIPS)
          /\ PrevDebt(t) # debt0

\* C4: in every row, Int_SHORT[t] = r_short[t] * Debt[t-1] * share_SHORT / 12
\* and Int_NB[t] = r_nb[t] * Debt[t-1] * share_NB / 12, on the prior month's
\* stock, r_short being the smoothed r3m and r_nb the smoothed
\* [0.2, 0.4, 0.4] blend of r2y, r5y, r10y.
C4_LaggedPrincipal ==
    Len(f_out) >= 1 =>
        LET rs == Smoothed(Column(macro_df, "r3m"), half_life_to_alpha(params.hl_SHORT))
            rn == Smoothed([i \in 1..Len(macro_df) |-> Blend(i)],
                           half_life_to_alpha(params.hl_NB))
        IN \A t \in 1..Len(f_out) :
              /\ f_out[t].Int_SHORT =
                    Div(Mul(Mul(rs[t], PrevDebt(t)), params.share_SHORT), R(12))
              /\ f_out[t].Int_NB =
                    Div(Mul(Mul(rn[t], PrevDebt(t)), params.share_NB), R(12))

C4_Witness ==
    /\ f_pc = "returned"
    /\ \E t \in 2..Len(f_out) :
          /\ f_out[t].Int_SHORT # Zero /\ ~IsNaN(f_out[t].Int_SHORT)
          /\ f_out[t].Int_NB # Zero /\ ~IsNaN(f_out[t].Int_NB)
          /\ f_out[t].Debt # PrevDebt(t)
          /\ PrevDebt(t) # debt0
          /\ r_short[t] # macro_df[t].r3m
          /\ r_nb[t] # Blend(t)

\* the same flat rate in every rate column of every month, and no inflation
FlatInputs ==
    /\ Len(macro_df) >= 1
    /\ ~IsNaN(macro_df[1].r3m)
    /\ \A i \in 1..Len(macro_df) :
          /\ macro_df[i].r3m = macro_df[1].r3m
          /\ macro_df[i].r2y = macro_df[1].r3m
          /\ macro_df[i].r5y = macro_df[1].r3m
          /\ macro_df[i].r10y = macro_df[1].r3m
          /\ macro_df[i].pce_infl_m = Zero

\* C5: with a flat rate r, no inflation, share_TIPS = 0 and other_bps = 0,
\* Debt after n months is Debt0 * (1 + r*(share_SHORT+share_NB)/12)^n.
C5_ClosedForm ==
    (FlatInputs /\ params.share_TIPS = Zero /\ params.other_bps = Zero) =>
        \A n \in 1..Len(f_out) :
            f_out[n].Debt =
               Mul(debt0,
                   IntPow(Add(One, Div(Mul(macro_df[1].r3m,
                                           Add(params.share_SHORT, params.share_NB)),
                                       R(12))), n))

C5_Witness ==
    /\ f_pc = "returned"
    /\ FlatInputs /\ params.share_TIPS = Zero /\ params.other_bps = Zero
    /\ Len(f_out) >= 3
    /\ params.hl_SHORT # params.hl_NB
    /\ Lt(debt0, f_out[1].Debt)
    /\ Lt(f_out[2].Debt, f_out[3].Debt)

\* the initial debt stock the claim describes
ResolvedDebt ==
    IF config.has_value /\ Lt(Zero, config.value) THEN config.value
    ELSE macro_df[1].nominal_gdp

\* C6: forecast_monthly and calibrate_params resolve the initial debt stock
\* alike: the configured value when it is strictly positive, else (zero,
\* negative or absent) the nominal_gdp of the first month.
C6_SameInitialDebt ==
    /\ f_pc \in {"alphas", "smooth", "loop", "returned", "ValueError"} =>
          debt0 = ResolvedDebt
    /\ c_pc = "grid" => debt_initial = ResolvedDebt
    /\ c_pc # "call" => (c_pc = "IndexError" <=> f_pc = "IndexError")

C6_Witness ==
    /\ c_pc = "grid"
    /\ f_pc = "returned"
    /\ config.has_value /\ config.value = Zero
    /\ debt_initial = macro_df[1].nominal_gdp
    /\ debt0 = debt_initial
    /\ debt0 # Zero

\* C7: once ema has run on a non-empty series, out has the length (and so the
\* index) of the series, out[0] = series[0], and every later out[i] is
\* alpha*series[i] + (1-alpha)*out[i-1].
C7_EmaRecurrence ==
    (e_pc \in {"loop", "returned"} /\ e_series # <<>>) =>
        /\ Len(e_out) = Len(e_series)
        /\ e_out[1] = e_series[1]
        /\ \A i \in 2..(e_i - 1) :
              e_out[i] = Add(Mul(e_alpha, e_series[i]), Mul(Sub(One, e_alpha), e_out[i - 1]))
        /\ e_pc = "returned" => e_i = Len(e_series) + 1

C7_Witness ==
    /\ e_pc = "returned"
    /\ Len(e_series) >= 3
    /\ \A i \in 1..Len(e_out) : ~IsNaN(e_out[i])
    /\ e_out[2] # e_series[2]
    /\ e_out[3] # e_series[3]
    /\ e_out[3] # Add(Mul(e_alpha, e_series[3]), Mul(Sub(One, e_alpha), e_series[2]))

\* the series is one constant before position k and a greater one from k on
StepAt(k) ==
    /\ ~IsNaN(e_series[k])
    /\ \A j \in k..Len(e_series) : e_series[j] = e_series[k]
    /\ k > 1 => /\ Lt(e_series[1], e_series[k])
                /\ \A j \in 1..(k - 1) : e_series[j] = e_series[1]

\* C8: for a step series (c before k, c' > c from k on) the output of ema
\* never decreases from position k on.
C8_StepMonotone ==
    e_pc = "returned" =>
        \A k \in 1..Len(e_series) :
            StepAt(k) => \A i \in k..(Len(e_series) - 1) : Le(e_out[i], e_out[i + 1])

C8_Witness ==
    /\ e_pc = "returned"
    /\ Len(e_series) >= 4
    /\ StepAt(2)
    /\ Lt(e_out[1], e_out[2])
    /\ Lt(e_out[2], e_out[3])
    /\ Lt(e_out[3], e_out[4])

\* C9: ema raises for every alpha <= 0 and every alpha > 1, with alpha left as
\* given and no output produced, and raises for no alpha in (0, 1]; with an
\* alpha in (0, 1] and an empty series it returns the empty series.
C9_EmaErrors ==
    /\ (e_pc # "call" /\ (Le(e_alpha, Zero) \/ Lt(One, e_alpha))) =>
          e_pc = "ValueError" /\ e_out = None
    /\ (Lt(Zero, e_alpha) /\ Le(e_alpha, One)) => e_pc # "ValueError"
    /\ (e_pc \notin {"call", "checked"} /\ Lt(Zero, e_alpha) /\ Le(e_alpha, One)
            /\ e_series = <<>>) =>
          e_pc = "returned" /\ e_out = <<>>

C9_Witness ==
    /\ e_pc = "ValueError"
    /\ Lt(One, e_alpha)
    /\ Len(e_series) >= 2
    /\ e_out = None

ConstantCurves ==
    /\ Len(w_r2y) >= 1 /\ Len(w_r5y) = Len(w_r2y) /\ Len(w_r10y) = Len(w_r2y)
    /\ \A i \in 1..Len(w_r2y) : w_r2y[i] = R(2) /\ w_r5y[i] = R(3) /\ w_r10y[i] = R(4)
    /\ w_weights = <<Q(1, 5), Q(2, 5), Q(2, 5)>>

\* C11 (as stated): weighted_curve with weights [0.2, 0.4, 0.4] on the
\* constant series 2, 3, 4 returns 3.0 at every timestamp.
C11_ReturnsThree ==
    (w_pc = "returned" /\ ConstantCurves) =>
        \A i \in 1..Len(w_out) : w_out[i] = R(3)

\* C11 (amended): weighted_curve with weights [0.2, 0.4, 0.4] on the constant
\* series 2, 3, 4 returns 0.2*2 + 0.4*3 + 0.4*4 = 3.2 at every timestamp.
C11_ConstantBlend ==
    (w_pc = "returned" /\ ConstantCurves) =>
        /\ Len(w_out) = Len(w_r2y)
        /\ \A i \in 1..Len(w_out) : w_out[i] = Q(16, 5)

C11_Witness ==
    /\ w_pc = "returned"
    /\ ConstantCurves
    /\ Len(w_out) >= 3
    /\ w_out[3] = Q(16, 5)

\* the term a series adds at position i: nothing when the position is absent
\* from the series or its value there is missing
CurveTerm(series, i, w) ==
    IF i > Len(series) \/ IsNaN(series[i]) \/ IsNaN(w) THEN Zero ELSE Mul(w, series[i])

\* C12: weighted_curve returns one value for every position in the union of
\* the three indices, equal to w0*r2y + w1*r5y + w2*r10y where a missing or
\* absent value adds 0 for its term; the result is never missing (0 where all
\* three are missing) and the weights are not renormalised.
C12_NanSafeBlend ==
    w_pc = "returned" =>
        /\ DOMAIN w_out = 1..Max(Len(w_r2y), Max(Len(w_r5y), Len(w_r10y)))
        /\ \A i \in DOMAIN w_out :
              /\ w_out[i] = Add(Add(CurveTerm(w_r2y, i, w_weights[1]),
                                    CurveTerm(w_r5y, i, w_weights[2])),
                                CurveTerm(w_r10y, i, w_weights[3]))
              /\ ~IsNaN(w_out[i])
              /\ (CurveTerm(w_r2y, i, One) = Zero /\ CurveTerm(w_r5y, i, One) = Zero
                      /\ CurveTerm(w_r10y, i, One) = Zero) => w_out[i] = Zero

\* r2y is missing at 1, r10y ends before 2, everything is missing at 3
C12_Witness ==
    /\ w_pc = "returned"
    /\ w_weights = <<Q(1, 5), Q(2, 5), Q(2, 5)>>
    /\ Len(w_r2y) = 3 /\ Len(w_r5y) = 3 /\ Len(w_r10y) = 1
    /\ IsNaN(w_r2y[1]) /\ w_out[1] = Q(14, 5)
    /\ w_out[2] = Q(8, 5)
    /\ IsNaN(w_r2y[3]) /\ IsNaN(w_r5y[3]) /\ w_out[3] = Zero

\* C13: whatever the coefficient vector and the initial debt, the parameters
\* the coefficient mapping returns have each share in [0, 1], the three
\* shares summing to at most 1, and other_bps >= 0 (all of them defined).
C13_ShareConstraint ==
    k_pc = "returned" =>
        /\ Le(Zero, k_ret.share_SHORT) /\ Le(k_ret.share_SHORT, One)
        /\ Le(Zero, k_ret.share_NB) /\ Le(k_ret.share_NB, One)
        /\ Le(Zero, k_ret.share_TIPS) /\ Le(k_ret.share_TIPS, One)
        /\ Le(Add(Add(k_ret.share_SHORT, k_ret.share_NB), k_ret.share_TIPS), One)
        /\ Le(Zero, k_ret.other_bps)
        /\ k_ret = _coefs_to_params(k_coef, k_debt)

\* the clipped shares summed to more than one and were scaled back
C13_Witness ==
    /\ k_pc = "returned"
    /\ k_coef[1] = One /\ k_coef[2] = Q(1, 24) /\ k_coef[3] = Q(1, 60)
    /\ k_debt = R(2)
    /\ Lt(k_ret.share_SHORT, One)
    /\ Lt(Zero, k_ret.share_TIPS)
    /\ Add(Add(k_ret.share_SHORT, k_ret.share_NB), k_ret.share_TIPS) = One

\* C17: for every MacroSeries (gaps included) and every half-life pair, the
\* smoothed short rate and the smoothed blended rate the calibrator builds
\* its design matrix from are, month by month, the values the forecast engine
\* uses for r_short and r_nb.
C17_SameSmoothing ==
    (f_pc = "returned" /\ d_pc \in {"smoothed", "returned", "IndexError"}) =>
        \A t \in 1..Len(macro_df) :
            /\ d_rs[t] = r_short[t]
            /\ d_rnb[t] = r_nb[t]

\* the MacroSeries with another primary_deficit_pct_gdp column
WithDeficit(df, v) == [i \in 1..Len(df) |-> [df[i] EXCEPT !.primary_deficit_pct_gdp = v]]

\* the rows a run of forecast_monthly on df writes in its first n months
RunRows(df, p, cfg, n) ==
    LET xs == ema(Column(df, "r3m"), half_life_to_alpha(p.hl_SHORT))
        xnb == ema(weighted_curve(Column(df, "r2y"), Column(df, "r5y"),
                                  Column(df, "r10y"), curve_weights),
                   half_life_to_alpha(p.hl_NB))
        rows[t \in 0..n] ==
            IF t = 0 THEN <<>>
            ELSE Append(rows[t - 1],
                        month_row(df, p, cfg, xs, xnb,
                                  IF t = 1 THEN forecast_debt0(df, cfg)
                                  ELSE rows[t - 1][t - 1].Debt, t))
    IN rows[n]

\* C20: the recursion adds no primary-deficit term: a run on inputs that
\* differ only in the primary_deficit_pct_gdp column (here: the column set to
\* 0 and to 7 in every month) writes the same rows, all seven columns, in
\* every month.
C20_NoPrimaryDeficit ==
    Len(f_out) >= 1 =>
        /\ f_out = RunRows(WithDeficit(macro_df, Zero), params, config, Len(f_out))
        /\ f_out = RunRows(WithDeficit(macro_df, R(7)), params, config, Len(f_out))

C20_Witness ==
    /\ f_pc = "returned"
    /\ Len(f_out) >= 2
    /\ \E t \in 1..Len(f_out) :
          /\ macro_df[t].primary_deficit_pct_gdp = R(-3)
          /\ macro_df[t].nominal_gdp # Zero
          /\ ~IsNaN(f_out[t].Debt)
          /\ f_out[t].NetInt # Zero

\* the parameters the claim generates the observed expense with
KnownParams ==
    [share_SHORT |-> Q(1, 4), share_NB |-> Q(3, 5), share_TIPS |-> Q(1, 10),
     other_bps |-> R(5)]

\* the coefficients of r_short, r_nb, pce_infl_m and nominal_gdp in the
\* engine's accruals Int_SHORT + Int_NB + Int_TIPS + Int_OTHER on the stock
\* debt: what an exact fit of that expense returns
EngineCoefs(p, debt) ==
    <<int_short(One, debt, p.share_SHORT), int_nb(One, debt, p.share_NB),
      int_tips(One, Zero, debt, p.share_TIPS), int_other(p.other_bps, One)>>

Within(x, y, tol) == Le(Sub(x, y), tol) /\ Le(Sub(y, x), tol)

\* C16: when the observed expense is the engine's own accruals on the
\* initial debt with share_SHORT = 0.25, share_NB = 0.60, share_TIPS = 0.10,
\* other_bps = 5, the coefficient mapping returns each share within 0.05 and
\* other_bps within 2.0 of these values (it inverts the engine's formulas).
C16_Recovery ==
    (k_pc = "returned" /\ Le(One, k_debt) /\ k_coef = EngineCoefs(KnownParams, k_debt)) =>
        /\ Within(k_ret.share_SHORT, KnownParams.share_SHORT, Q(1, 20))
        /\ Within(k_ret.share_NB, KnownParams.share_NB, Q(1, 20))
        /\ Within(k_ret.share_TIPS, KnownParams.share_TIPS, Q(1, 20))
        /\ Within(k_ret.other_bps, KnownParams.other_bps, R(2))


\* the first cell, in iteration order, whose residual sum of squares no
\* other cell undercuts
FirstMinCell ==
    CHOOSE k \in 1..Len(c_scores) :
        /\ \A j \in 1..Len(c_scores) : Le(c_scores[k].rss, c_scores[j].rss)
        /\ \A j \in 1..(k - 1) : Lt(c_scores[k].rss, c_scores[j].rss)

\* C14: when calibrate_params returns, all 12 cells of the grid
\* {3,6,12} x {12,18,24,30} have been scored, and the returned half-lives and
\* parameters are those of the first cell, hl_SHORT outer and hl_NB inner, both
\* ascending, whose residual sum of squares is minimal over the grid
C14_GridArgmin ==
    c_pc = "returned" =>
        /\ Len(c_scores) = 12
        /\ Len(grid_cells) = 12
        /\ {grid_cells[k] : k \in 1..12} = {R(3), R(6), R(12)} \X {R(12), R(18), R(24), R(30)}
        /\ \A k \in 1..11 :
              \/ Lt(grid_cells[k][1], grid_cells[k + 1][1])
              \/ /\ grid_cells[k][1] = grid_cells[k + 1][1]
                 /\ Lt(grid_cells[k][2], grid_cells[k + 1][2])
        /\ c_ret.hl_SHORT = grid_cells[FirstMinCell][1]
        /\ c_ret.hl_NB = grid_cells[FirstMinCell][2]
        /\ c_ret.share_SHORT = c_scores[FirstMinCell].params.share_SHORT
        /\ c_ret.share_NB = c_scores[FirstMinCell].params.share_NB
        /\ c_ret.share_TIPS = c_scores[FirstMinCell].params.share_TIPS
        /\ c_ret.other_bps = c_scores[FirstMinCell].params.other_bps

\* a return where the minimum is first reached after the first cell and is
\* reached again by a later cell
C14_Witness ==
    /\ c_pc = "returned"
    /\ FirstMinCell > 1
    /\ \E j \in (FirstMinCell + 1)..Len(c_scores) :
          c_scores[j].rss = c_scores[FirstMinCell].rss


\* a non-empty frame whose r3m, r2y, r5y, r10y and pce_infl_m columns are all
\* zero and whose nominal_gdp column is one number repeated
DegenerateFrame ==
    /\ Len(macro_df) > 0
    /\ \A i \in 1..Len(macro_df) :
          /\ macro_df[i].r3m = Zero /\ macro_df[i].r2y = Zero
          /\ macro_df[i].r5y = Zero /\ macro_df[i].r10y = Zero
          /\ macro_df[i].pce_infl_m = Zero
          /\ ~IsNaN(macro_df[i].nominal_gdp)
          /\ macro_df[i].nominal_gdp = macro_df[1].nominal_gdp

\* C15: on all-zero rate and inflation columns with constant GDP,
\* calibrate_params never raises, whatever the observed series, and the shares
\* it returns are defined, each in [0,1], and sum to at most 1
C15_DegenerateCalibration ==
    DegenerateFrame =>
        /\ c_pc \in {"idle", "call", "grid", "returned"}
        /\ c_pc = "returned" =>
              /\ \A s \in {c_ret.share_SHORT, c_ret.share_NB, c_ret.share_TIPS} :
                    ~IsNaN(s) /\ Le(Zero, s) /\ Le(s, One)
              /\ Le(Add(Add(c_ret.share_SHORT, c_ret.share_NB), c_ret.share_TIPS), One)

\* a degenerate calibration that returned after fitting a non-zero observed
\* series on the one non-zero column the design has
C15_Witness ==
    /\ DegenerateFrame
    /\ c_pc = "returned"
    /\ Len(macro_df) >= 2
    /\ \E i \in 1..Len(c_y) : c_y[i] # Zero
    /\ c_ret.other_bps # Zero


\* the label the conventions give a month: its calendar year, or under the
\* fiscal convention the next year for October to December
ConventionLabel(stamp, fy) == IF fy /\ stamp[2] >= 10 THEN stamp[1] + 1 ELSE stamp[1]

\* the months of monthly_df that carry a label, and the sum of the NetInt
\* they report over the first n rows
MonthsWith(label) ==
    {i \in 1..Len(monthly_df) : ConventionLabel(monthly_df[i].stamp, a_fy) = label}
RECURSIVE NetIntOver(_, _)
NetIntOver(n, label) ==
    IF n = 0 THEN Zero
    ELSE Add(NetIntOver(n - 1, label),
             IF n \in MonthsWith(label) /\ ~IsNaN(monthly_df[n].NetInt)
             THEN monthly_df[n].NetInt ELSE Zero)

\* the months Oct 2019 to Mar 2020, each with NetInt = 18
SixMonthsOf18 ==
    /\ a_fn = "aggregate"
    /\ Column(monthly_df, "stamp") =
          <<(<<2019, 10>>), (<<2019, 11>>), (<<2019, 12>>), (<<2020, 1>>), (<<2020, 2>>),
            (<<2020, 3>>)>>
    /\ \A i \in 1..Len(monthly_df) : monthly_df[i].NetInt = R(18)

\* C18: both aggregate.aggregate_model_cy/fy and transforms.aggregate_cy/fy
\* label a month by its calendar year under the calendar convention and by
\* calendar year + 1 for October-December, the calendar year otherwise, under
\* the fiscal convention; aggregate_model_cy/fy has one row per label, whose
\* interest_total is the sum of NetInt over exactly the months with that label;
\* Oct 2019-Mar 2020 of NetInt = 18 give 54 under 2019 (calendar) and 108
\* under 2020 (fiscal)
C18_YearLabels ==
    /\ a_pc \in {"grouped", "returned"} =>
          LET idx == IF a_fn = "aggregate" THEN Column(monthly_df, "stamp") ELSE a_df.index
          IN /\ Len(years) = Len(idx)
             /\ \A i \in 1..Len(idx) : years[i] = ConventionLabel(idx[i], a_fy)
    /\ a_pc = "returned" /\ a_fn = "aggregate" =>
          /\ {a_out[r].label : r \in 1..Len(a_out)} =
                {ConventionLabel(monthly_df[i].stamp, a_fy) : i \in 1..Len(monthly_df)}
          /\ \A r, q \in 1..Len(a_out) : a_out[r].label = a_out[q].label => r = q
          /\ \A r \in 1..Len(a_out) :
                a_out[r].interest_total =
                    IF \A i \in MonthsWith(a_out[r].label) : IsNaN(monthly_df[i].NetInt)
                    THEN NaN
                    ELSE NetIntOver(Len(monthly_df), a_out[r].label)
    /\ a_pc = "returned" /\ SixMonthsOf18 =>
          IF a_fy
          THEN /\ Len(a_out) = 1
               /\ a_out[1].label = 2020 /\ a_out[1].interest_total = R(108)
          ELSE /\ Len(a_out) = 2
               /\ a_out[1].label = 2019 /\ a_out[1].interest_total = R(54)
               /\ a_out[2].label = 2020 /\ a_out[2].interest_total = R(54)

\* the fiscal aggregation of Oct 2019-Mar 2020 has returned its one row
C18_Witness ==
    /\ a_pc = "returned" /\ SixMonthsOf18 /\ a_fy
    /\ a_out[1].label = 2020 /\ a_out[1].interest_total = R(108)


\* the rows of monthly_df in one calendar year, and the sum of the
\* nominal_gdp they report over the first n rows
RECURSIVE GdpOver(_, _)
GdpOver(n, year) ==
    IF n = 0 THEN Zero
    ELSE Add(GdpOver(n - 1, year),
             IF monthly_df[n].stamp[1] = year THEN monthly_df[n].nominal_gdp ELSE Zero)

\* C19: for a calendar year of monthly model output with the twelve months
\* present, aggregate_model_cy reports gdp_total = the sum of the year's
\* monthly nominal_gdp (12*g for constant g), r_eff = interest_total /
\* debt_avg and interest_pct_gdp = interest_total / gdp_total
C19_CalendarYearTotals ==
    (a_pc = "returned" /\ a_fn = "aggregate" /\ ~a_fy /\ has_gdp) =>
        \A r \in 1..Len(a_out) :
            LET months == {i \in 1..Len(monthly_df) :
                              monthly_df[i].stamp[1] = a_out[r].label}
            IN (/\ Cardinality(months) = 12
                /\ \A i \in months :
                      /\ ~IsNaN(monthly_df[i].NetInt) /\ ~IsNaN(monthly_df[i].nominal_gdp)
                      /\ Lt(Zero, monthly_df[i].Debt) /\ Lt(Zero, monthly_df[i].nominal_gdp))
               => /\ a_out[r].gdp_total = GdpOver(Len(monthly_df), a_out[r].label)
                  /\ \A i \in months :
                        (\A j \in months :
                            monthly_df[j].nominal_gdp = monthly_df[i].nominal_gdp)
                        => a_out[r].gdp_total = Mul(R(12), monthly_df[i].nominal_gdp)
                  /\ a_out[r].r_eff = Div(a_out[r].interest_total, a_out[r].debt_avg)
                  /\ a_out[r].interest_pct_gdp =
                        Div(a_out[r].interest_total,
                            GdpOver(Len(monthly_df), a_out[r].label))


\* the frame lacks one of the columns forecast_monthly and calibrate_params read
MissingRequired == ~(RequiredColumns \subseteq macro_columns)

\* C21: on a MacroSeries lacking a required column, forecast_monthly and
\* calibrate_params fail with an input error before any smoothing, month
\* transition or grid cell is computed and return no result, whatever the
\* series length and the configured initial debt
C21_MissingColumnFailsFirst ==
    MissingRequired =>
        /\ f_pc # "returned"
        /\ f_pc \notin {"call", "alphas", "smooth", "ValueError"} =>
              /\ f_pc \in {"KeyError", "IndexError"}
              /\ r_short = None /\ r_nb = None /\ f_out = <<>>
        /\ c_pc \notin {"call", "grid"} => c_pc \in {"KeyError", "IndexError"}
        /\ (c_pc = "grid" /\ d_pc \notin {"call", "ValueError"}) =>
              /\ d_pc \in {"KeyError", "IndexError"}
              /\ d_rs = None /\ d_rnb = None /\ c_scores = <<>>


\* the parameters carry a half-life that is not positive
BadHalfLife == Le(params.hl_SHORT, Zero) \/ Le(params.hl_NB, Zero)

\* forecast_monthly has left its first two steps
PastAlphas == f_pc \notin {"call", "alphas"}

\* C22 as stated: with hl_SHORT <= 0 or hl_NB <= 0 forecast_monthly fails with
\* an invalid-parameter error before any month's state is computed and returns
\* no trajectory; no smoothing weight is derived from a clamped or default
\* half-life
C22_InvalidParameterError ==
    BadHalfLife =>
        /\ f_pc \notin {"smooth", "loop", "returned"}
        /\ alpha_s = None /\ alpha_nb = None /\ r_short = None /\ r_nb = None
        /\ f_out = <<>>
        /\ PastAlphas => f_pc = "ValueError"

\* C22: with hl_SHORT <= 0 or hl_NB <= 0 forecast_monthly fails before any
\* month's state is computed and returns no trajectory, no smoothing weight
\* being derived from a clamped or default half-life; the failure is the
\* invalid-parameter error unless the initial debt cannot be resolved (no
\* positive configured debt and a MacroSeries that is empty or has no
\* nominal_gdp column), which is raised first
C22_BadHalfLifeFails ==
    BadHalfLife =>
        /\ f_pc \notin {"smooth", "loop", "returned"}
        /\ alpha_s = None /\ alpha_nb = None /\ r_short = None /\ r_nb = None
        /\ f_out = <<>>
        /\ PastAlphas =>
              f_pc = IF forecast_debt0_missing(macro_columns, config) THEN "KeyError"
                     ELSE IF forecast_debt0_raises(macro_df, config) THEN "IndexError"
                     ELSE "ValueError"

\* a call with a non-positive half-life on a non-empty frame has raised
C22_Witness ==
    /\ BadHalfLife /\ Len(macro_df) > 0
    /\ f_pc = "ValueError"


\* C23: on a MacroSeries that has every required column, gaps in the values
\* allowed, forecast_monthly either raises or returns a trajectory whose every
\* cell of every month is a defined number
C23_NoSilentNaN ==
    (RequiredColumns \subseteq macro_columns /\ f_pc = "returned") =>
        \A t \in 1..Len(f_out) :
            \A cell \in {"Int_SHORT", "Int_NB", "Int_TIPS", "Int_OTHER", "NetInt", "Debt",
                         "r_eff"} :
                ~IsNaN(f_out[t][cell])


\* the candidate files, and those named IntExp_<YYYYMMDD>_<YYYYMMDD>.csv
CandidateFiles == {e \in l_dir : glob_matches(e.name) /\ e.is_file}
DatedFiles == {e \in CandidateFiles : e.name.kind = "dated"}

\* C24: among candidates named IntExp_<YYYYMMDD>_<YYYYMMDD>.csv
\* find_latest_ieod_csv returns one whose end date is the greatest, whatever
\* the modification times; the modification time decides only when no
\* candidate name carries dates
C24_LatestByEndDate ==
    (l_pc = "returned" /\ \A e \in CandidateFiles : e.name.kind \in {"dated", "plain"}) =>
        IF DatedFiles # {}
        THEN /\ l_ret \in {e.name : e \in DatedFiles}
             /\ \A e \in DatedFiles : e.name.end <= l_ret.end
        ELSE \E e \in CandidateFiles :
                /\ e.name = l_ret
                /\ \A f \in CandidateFiles : f.mtime <= e.mtime

\* the seven series of macro_series are annual and hold a value for every
\* calendar year the window touches
MacroNames == {"r3m", "r2y", "r5y", "r10y", "pce_infl", "primary_deficit", "nominal_gdp_growth"}
AnnualForWindow ==
    \A name \in MacroNames :
        /\ name \in DOMAIN x_cfg.macro_series
        /\ x_cfg.macro_series[name].frequency = "A"
        /\ \A i \in 1..Len(x_idx) :
              \E e \in x_cfg.macro_series[name].values : e[1] = x_idx[i][1]
YearValue(name, i) == value_at(x_cfg.macro_series[name].values, x_idx[i][1])

\* C25: expand_macro_series, given annual series keyed by the years of the
\* window, returns a table in which every required column is defined at every
\* month, the annual value of year Y applying to every month of calendar year
\* Y starting with the first: each rate and the deficit equal the year's
\* value, monthly inflation is the year's value compounded, and GDP is the
\* initial level compounded with the year's growth.
C25_AnnualValueEveryMonth ==
    (x_pc = "returned" /\ AnnualForWindow) =>
        \A i \in 1..Len(x_idx) :
            /\ \A name \in {"r3m", "r2y", "r5y", "r10y"} :
                  x_out[i][name] = YearValue(name, i) /\ ~IsNaN(x_out[i][name])
            /\ x_out[i].pce_infl_m = _annual_to_monthly_compounded(YearValue("pce_infl", i))
            /\ x_out[i].primary_deficit_pct_gdp = YearValue("primary_deficit", i)
            /\ x_out[i].nominal_gdp =
                  gdp_level(x_cfg.nominal_gdp_initial,
                            [j \in 1..Len(x_idx) |->
                                _annual_to_monthly_compounded(YearValue("nominal_gdp_growth", j))],
                            i)
            /\ ~IsNaN(x_out[i].nominal_gdp.base)

\* the rows of df_ieod dated in calendar month <<year, month>> within
\* [start, now], both ends included
RowsOfMonth(ym) ==
    {i \in 1..Len(b_ieod) :
        /\ <<b_ieod[i].date[1], b_ieod[i].date[2]>> = ym
        /\ date_ord(b_start) <= date_ord(b_ieod[i].date)
        /\ date_ord(b_ieod[i].date) <= date_ord(b_now)}
RECURSIVE SumOver(_)
SumOver(rows) ==
    IF rows = {} THEN 0
    ELSE LET i == CHOOSE j \in rows : TRUE IN b_ieod[i].amount + SumOver(rows \ {i})
CalendarMonths == {<<b_ieod[i].date[1], b_ieod[i].date[2]>> : i \in 1..Len(b_ieod)}

\* C26: build_ieod_monthly_total returns, for each calendar month with at
\* least one row dated within [start, now] (both inclusive), the sum of the
\* amounts of exactly those rows under that month's month-end, once and in
\* index order; rows outside the window add to no month and a month without
\* such rows has no entry (rather than a zero).
C26_MonthlyTotals ==
    b_pc = "returned" =>
        /\ \A ym \in CalendarMonths :
              RowsOfMonth(ym) # {} =>
                  \E k \in 1..Len(b_ret) :
                      /\ b_ret[k].month = <<ym[1], ym[2], days_in_month(ym[1], ym[2])>>
                      /\ b_ret[k].total = SumOver(RowsOfMonth(ym))
        /\ \A k \in 1..Len(b_ret) :
              /\ RowsOfMonth(<<b_ret[k].month[1], b_ret[k].month[2]>>) # {}
              /\ b_ret[k].month[3] = days_in_month(b_ret[k].month[1], b_ret[k].month[2])
        /\ \A k \in 1..(Len(b_ret) - 1) : date_ord(b_ret[k].month) < date_ord(b_ret[k + 1].month)
\* returned for: a row before start, two rows of one month summing to zero on
\* the last day of the window, and nothing in between
C26_Witness ==
    /\ b_pc = "returned"
    /\ b_start = <<2020, 10, 15>> /\ b_now = <<2020, 10, 31>>
    /\ b_ieod = << [date |-> <<2020, 9, 1>>, amount |-> 10],
                   [date |-> <<2020, 10, 15>>, amount |-> 10],
                   [date |-> <<2020, 10, 31>>, amount |-> -10] >>
    /\ b_ret = << [month |-> <<2020, 10, 31>>, total |-> 0] >>

\* clamp(x, 0, 1) of a defined number
Clamp01(x) == IF Lt(x, Zero) THEN Zero ELSE IF Lt(One, x) THEN One ELSE x
\* the three shares as clamped by the call, before any rescaling
ClampedShares ==
    <<clip_share(k_coef[1], share_denom(k_debt)), clip_share(k_coef[2], share_denom(k_debt)),
      clip_share(k_coef[3], share_denom(k_debt))>>
ReturnedShares == <<k_ret.share_SHORT, k_ret.share_NB, k_ret.share_TIPS>>

\* C27: in the coefficient mapping each clamped share is
\* clamp(12*beta/max(debtInitial, 1), 0, 1) (for defined beta and debt); when
\* the three clamped shares sum to more than 1 the returned shares are the
\* clamped ones times one common factor, sum to exactly 1 and keep their
\* pairwise ratios; when they sum to 1 or less the returned shares are the
\* clamped values unchanged.
C27_ProportionalRescale ==
    k_pc = "returned" =>
        LET c == ClampedShares
            r == ReturnedShares
            ssum == Add(Add(c[1], c[2]), c[3])
        IN /\ \A i \in 1..3 :
                 (~IsNaN(k_coef[i]) /\ ~IsNaN(k_debt)) =>
                     c[i] = Clamp01(Div(Mul(R(12), k_coef[i]),
                                        IF Lt(One, k_debt) THEN k_debt ELSE One))
           /\ Lt(One, ssum) =>
                 /\ \A i \in 1..3 : r[i] = Mul(c[i], Div(One, ssum))
                 /\ Add(Add(r[1], r[2]), r[3]) = One
                 /\ \A i, j \in 1..3 : Mul(r[i], c[j]) = Mul(r[j], c[i])
           /\ Le(ssum, One) => r = c
\* two shares clamped at 1 and one at 1/2 come back as 2/5, 2/5 and 1/5
C27_Witness ==
    /\ k_pc = "returned"
    /\ k_coef[1] = One /\ k_coef[2] = One /\ k_coef[3] = Q(1, 24)
    /\ k_debt = One
    /\ ClampedShares = <<One, One, Q(1, 2)>>
    /\ ReturnedShares = <<Q(2, 5), Q(2, 5), Q(1, 5)>>
\* the clamped shares sum to exactly 1 and are returned as they are
C27_WitnessUnscaled ==
    /\ k_pc = "returned"
    /\ ClampedShares = <<Q(1, 2), Q(1, 2), Zero>>
    /\ ReturnedShares = ClampedShares

\* coefficient vectors a fit may return
CoefVectors ==
    { <<Q(1, 24), Q(1, 10), Q(1, 60), Zero>>,
      <<One, Q(1, 24), Q(1, 60), Q(1, 24000)>>,
      <<R(-1), R(2), R(3), R(-6)>> }
\* b applied to four columns at month i
Applied(b, c1, c2, c3, c4, i) ==
    Add(Add(Add(Mul(b[1], c1[i]), Mul(b[2], c2[i])), Mul(b[3], c3[i])), Mul(b[4], c4[i]))

\* C28: reversing the orthogonalization preserves the fit: for any
\* coefficient vector coef, the reversed coefficients (coef[0] - a*coef[1],
\* coef[1], coef[2], coef[3]/gdpScale) applied to r_short, r_nb, tips_m and
\* the calibrator's nominal_gdp series give, at every month, the value coef
\* gives on the design columns r_short, r_nb_resid, tips_m and gdp_scaled,
\* also when the zero-denominator or zero-GDP guard substitutes 1.0.
C28_ReversalPreservesFit ==
    d_pc = "returned" =>
        \A coef \in CoefVectors : \A i \in 1..Len(macro_df) :
            Applied(coef_orig(coef, d_a, d_gdp_scale),
                    d_rs, d_rnb, d_X.tips_m, design_gdp(macro_df), i)
            = Applied(coef, d_X.r_short, d_X.r_nb_resid, d_X.tips_m, d_X.gdp_scaled, i)
\* a design with a non-zero projection coefficient, a GDP scale other than 1
\* and a residual column that differs from r_nb
C28_Witness ==
    /\ d_pc = "returned"
    /\ Len(macro_df) >= 2
    /\ d_a # Zero /\ d_gdp_scale # One
    /\ d_X.r_nb_resid # d_rnb
    /\ \E i \in 1..Len(macro_df) : d_X.tips_m[i] # Zero
\* the zero-denominator guard substitutes 1.0: r_short is zero in every
\* month while r_nb is not
C28_WitnessDenomGuard ==
    /\ d_pc = "returned"
    /\ series_sum(series_mul(d_rs, d_rs)) = Zero
    /\ d_a = Zero
    /\ \E i \in 1..Len(macro_df) : d_rnb[i] # Zero
\* the zero-GDP guard substitutes 1.0: the first GDP value is zero and a
\* later one is not
C28_WitnessGdpGuard ==
    /\ d_pc = "returned"
    /\ design_gdp(macro_df)[1] = Zero
    /\ d_gdp_scale = One
    /\ \E i \in 1..Len(macro_df) : design_gdp(macro_df)[i] # Zero

\* C29: in the calibrator's design matrix a missing r3m at month k >= 1 makes
\* r_short equal to its month k-1 value at every month from k on, whatever
\* r3m holds after k, and a missing r3m at month 0 makes r_short 0 at every
\* month (months counted from 0; the sequences here start at 1).
C29_GapFreezesShortRate ==
    d_pc \in {"smoothed", "returned"} =>
        /\ \A k \in 2..Len(macro_df) :
              IsNaN(macro_df[k].r3m) =>
                  \A j \in k..Len(macro_df) : d_rs[j] = d_rs[k - 1]
        /\ (Len(macro_df) >= 1 /\ IsNaN(macro_df[1].r3m)) =>
              \A j \in 1..Len(macro_df) : d_rs[j] = Zero
\* r3m is 6, missing, 12: r_short stays at 6 although 12 was observed
C29_Witness ==
    /\ d_pc = "returned"
    /\ Len(macro_df) = 3
    /\ macro_df[1].r3m = R(6) /\ IsNaN(macro_df[2].r3m) /\ macro_df[3].r3m = R(12)
    /\ d_rs = <<R(6), R(6), R(6)>>
    /\ d_X.r_short = d_rs
\* r3m is missing in month 0 and observed afterwards: r_short is 0 throughout
C29_WitnessFirstMonth ==
    /\ d_pc = "returned"
    /\ Len(macro_df) = 3
    /\ IsNaN(macro_df[1].r3m) /\ macro_df[2].r3m = R(12) /\ macro_df[3].r3m = R(6)
    /\ d_rs = <<Zero, Zero, Zero>>

\* every rate, inflation value and GDP value of the MacroSeries, every share,
\* other_bps and r_tips_coupon is defined and non-negative
NonNegativeInputs ==
    /\ \A t \in 1..Len(macro_df) :
          \A c \in {"r3m", "r2y", "r5y", "r10y", "pce_infl_m", "nominal_gdp"} :
              Le(Zero, macro_df[t][c])
    /\ Le(Zero, params.share_SHORT) /\ Le(Zero, params.share_NB)
    /\ Le(Zero, params.share_TIPS) /\ Le(Zero, params.other_bps)
    /\ Le(Zero, config.r_tips_coupon)

\* C30: when the resolved initial debt is positive and every rate, inflation
\* value, GDP value, share, other_bps and r_tips_coupon is non-negative, every
\* month written so far has NetInt[t] >= 0 and Debt[t] >= Debt[t-1], so Debt
\* is never below the initial stock.
C30_DebtNeverFalls ==
    (debt0 # None /\ Lt(Zero, debt0) /\ NonNegativeInputs) =>
        \A t \in 1..Len(f_out) :
            /\ Le(Zero, f_out[t].NetInt)
            /\ Le(PrevDebt(t), f_out[t].Debt)
            /\ Le(debt0, f_out[t].Debt)
\* three months of positive interest on a positive stock, the OTHER bucket
\* included: the stock grows every month
C30_Witness ==
    /\ f_pc = "returned"
    /\ Len(f_out) = 3
    /\ Lt(Zero, debt0) /\ NonNegativeInputs
    /\ Lt(Zero, params.other_bps)
    /\ \A t \in 1..3 : Lt(Zero, f_out[t].Int_OTHER) /\ Lt(PrevDebt(t), f_out[t].Debt)
\* the stock stays where it is in a month without interest
C30_WitnessFlat ==
    /\ f_pc = "returned"
    /\ Lt(Zero, debt0) /\ NonNegativeInputs
    /\ \E t \in 1..Len(f_out) : f_out[t].NetInt = Zero /\ f_out[t].Debt = PrevDebt(t)
====
